---- MODULE Spec2Model ----
(***************************************************************************)
(* The join-waitlist edge function (supabase/functions/join-waitlist)      *)
(* together with the two tables of the initial schema migration it reads   *)
(* and writes.  Every request is a process that runs the handler; the      *)
(* handler's awaits (the body, the application lookup and the insert) are  *)
(* the points where concurrent requests interleave, and each database call *)
(* is two steps: the database executes it, then the handler resumes with   *)
(* its answer.                                                             *)
(***************************************************************************)
EXTENDS Naturals, Integers, Sequences, FiniteSets, TLC

VARIABLES applications, inactive, policies, entries, nextId, now, dbnow,
          pc, req, resp, calls, data, sent, prior

vars == <<applications, inactive, policies, entries, nextId, now, dbnow,
         pc, req, resp, calls, data, sent, prior>>

(***************************************************************************)
(* Bounds of the model.                                                    *)
(***************************************************************************)
\* number of requests handled in one behaviour of the general specification
MaxReqs == 2
\* number of requests racing for one (application, email) pair
MaxRacers == 3
\* number of requests of the specification that draws from the wide input set
MaxWide == 1
\* last reading of the clock in the specification where time passes
MaxTime == 2
\* number of concurrent requests of the specification with fairness
MaxLive == 2
\* number of values gen_random_uuid() can return in the specification of the
\* identifiers
MaxIds == 2

Reqs == 1..MaxReqs
Racers == 1..MaxRacers
WideReqs == 1..MaxWide

(***************************************************************************)
(* Strings.  An email is a sequence of characters so that toLowerCase,     *)
(* trim and the schema's regular expression are computed on its            *)
(* characters.  A character is a one-character string, or, where TLA+ has  *)
(* no way to write it, the name of its code point ("U+000B").  Application *)
(* identifiers and source URLs are opaque strings; a country is a string.  *)
(***************************************************************************)
Uppers == <<"A","B","C","D","E","F","G","H","I","J","K","L","M",
            "N","O","P","Q","R","S","T","U","V","W","X","Y","Z">>
Lowers == <<"a","b","c","d","e","f","g","h","i","j","k","l","m",
            "n","o","p","q","r","s","t","u","v","w","x","y","z">>
Digits == {"0","1","2","3","4","5","6","7","8","9"}
\* the WhiteSpace and LineTerminator code points of ECMAScript, which
\* String.prototype.trim removes
WhiteSpace ==
    {" ", "\t", "\n", "\r", "\f", "U+000B", "U+00A0", "U+FEFF", "U+1680",
     "U+2000", "U+2001", "U+2002", "U+2003", "U+2004", "U+2005", "U+2006",
     "U+2007", "U+2008", "U+2009", "U+200A", "U+2028", "U+2029", "U+202F",
     "U+205F", "U+3000"}

Range(s) == {s[i] : i \in DOMAIN s}
Letters == Range(Uppers) \cup Range(Lowers)

\* the hexadecimal digits; the digit d has the value of its index less one
HexDigits == <<"0","1","2","3","4","5","6","7","8","9","A","B","C","D","E","F">>
HexDigit(d) == (CHOOSE i \in DOMAIN HexDigits : HexDigits[i] = d) - 1

RECURSIVE HexValue(_)
HexValue(h) ==
    IF Len(h) = 0 THEN 0
    ELSE 16 * HexValue(SubSeq(h, 1, Len(h) - 1)) + HexDigit(SubSeq(h, Len(h), Len(h)))

RECURSIVE Hex(_, _)
Hex(n, w) ==
    IF n = 0 /\ w <= 0 THEN "" ELSE Hex(n \div 16, w - 1) \o HexDigits[(n % 16) + 1]

\* the characters U+0020 to U+007E, written as themselves but for U+0060
Ascii ==
    <<" ","!","\"","#","$","%","&","'","(",")","*","+",",","-",".","/",
      "0","1","2","3","4","5","6","7","8","9",":",";","<","=",">","?",
      "@","A","B","C","D","E","F","G","H","I","J","K","L","M","N","O",
      "P","Q","R","S","T","U","V","W","X","Y","Z","[","\\","]","^","_",
      "U+0060","a","b","c","d","e","f","g","h","i","j","k","l","m","n","o",
      "p","q","r","s","t","u","v","w","x","y","z","{","|","}","~">>

\* a character written as the name of its code point
IsCodePointName(c) == Len(c) >= 6 /\ SubSeq(c, 1, 2) = "U+"

\* the code point of a character, and the character of a code point
CodePoint(c) ==
    IF IsCodePointName(c) THEN HexValue(SubSeq(c, 3, Len(c)))
    ELSE IF c = "\t" THEN 9
    ELSE IF c = "\n" THEN 10
    ELSE IF c = "\f" THEN 12
    ELSE IF c = "\r" THEN 13
    ELSE 31 + (CHOOSE i \in DOMAIN Ascii : Ascii[i] = c)
Char(n) ==
    IF n \in 32..126 THEN Ascii[n - 31]
    ELSE IF n = 9 THEN "\t"
    ELSE IF n = 10 THEN "\n"
    ELSE IF n = 12 THEN "\f"
    ELSE IF n = 13 THEN "\r"
    ELSE "U+" \o Hex(n, 4)

\* the lower-case mappings of the Unicode Character Database (Unicode 17.0,
\* the version of the runtime's String.prototype.toLowerCase), as runs
\* <<first, last, step, offset>>: every code point first, first + step, ...,
\* last has the lower-case form at the distance offset
LowerCaseRuns ==
    {<<65,90,1,32>>, <<192,214,1,32>>, <<216,222,1,32>>, <<256,302,2,1>>, <<306,310,2,1>>,
     <<313,327,2,1>>, <<330,374,2,1>>, <<376,376,1,-121>>, <<377,381,2,1>>, <<385,385,1,210>>,
     <<386,388,2,1>>, <<390,390,1,206>>, <<391,391,1,1>>, <<393,394,1,205>>, <<395,395,1,1>>,
     <<398,398,1,79>>, <<399,399,1,202>>, <<400,400,1,203>>, <<401,401,1,1>>, <<403,403,1,205>>,
     <<404,404,1,207>>, <<406,406,1,211>>, <<407,407,1,209>>, <<408,408,1,1>>, <<412,412,1,211>>,
     <<413,413,1,213>>, <<415,415,1,214>>, <<416,420,2,1>>, <<422,422,1,218>>, <<423,423,1,1>>,
     <<425,425,1,218>>, <<428,428,1,1>>, <<430,430,1,218>>, <<431,431,1,1>>, <<433,434,1,217>>,
     <<435,437,2,1>>, <<439,439,1,219>>, <<440,440,1,1>>, <<444,444,1,1>>, <<452,452,1,2>>,
     <<453,453,1,1>>, <<455,455,1,2>>, <<456,456,1,1>>, <<458,458,1,2>>, <<459,475,2,1>>,
     <<478,494,2,1>>, <<497,497,1,2>>, <<498,500,2,1>>, <<502,502,1,-97>>, <<503,503,1,-56>>,
     <<504,542,2,1>>, <<544,544,1,-130>>, <<546,562,2,1>>, <<570,570,1,10795>>, <<571,571,1,1>>,
     <<573,573,1,-163>>, <<574,574,1,10792>>, <<577,577,1,1>>, <<579,579,1,-195>>, <<580,580,1,69>>,
     <<581,581,1,71>>, <<582,590,2,1>>, <<880,882,2,1>>, <<886,886,1,1>>, <<895,895,1,116>>,
     <<902,902,1,38>>, <<904,906,1,37>>, <<908,908,1,64>>, <<910,911,1,63>>, <<913,929,1,32>>,
     <<931,939,1,32>>, <<975,975,1,8>>, <<984,1006,2,1>>, <<1012,1012,1,-60>>, <<1015,1015,1,1>>,
     <<1017,1017,1,-7>>, <<1018,1018,1,1>>, <<1021,1023,1,-130>>, <<1024,1039,1,80>>, <<1040,1071,1,32>>,
     <<1120,1152,2,1>>, <<1162,1214,2,1>>, <<1216,1216,1,15>>, <<1217,1229,2,1>>, <<1232,1326,2,1>>,
     <<1329,1366,1,48>>, <<4256,4293,1,7264>>, <<4295,4295,1,7264>>, <<4301,4301,1,7264>>, <<5024,5103,1,38864>>,
     <<5104,5109,1,8>>, <<7305,7305,1,1>>, <<7312,7354,1,-3008>>, <<7357,7359,1,-3008>>, <<7680,7828,2,1>>,
     <<7838,7838,1,-7615>>, <<7840,7934,2,1>>, <<7944,7951,1,-8>>, <<7960,7965,1,-8>>, <<7976,7983,1,-8>>,
     <<7992,7999,1,-8>>, <<8008,8013,1,-8>>, <<8025,8031,2,-8>>, <<8040,8047,1,-8>>, <<8072,8079,1,-8>>,
     <<8088,8095,1,-8>>, <<8104,8111,1,-8>>, <<8120,8121,1,-8>>, <<8122,8123,1,-74>>, <<8124,8124,1,-9>>,
     <<8136,8139,1,-86>>, <<8140,8140,1,-9>>, <<8152,8153,1,-8>>, <<8154,8155,1,-100>>, <<8168,8169,1,-8>>,
     <<8170,8171,1,-112>>, <<8172,8172,1,-7>>, <<8184,8185,1,-128>>, <<8186,8187,1,-126>>, <<8188,8188,1,-9>>,
     <<8486,8486,1,-7517>>, <<8490,8490,1,-8383>>, <<8491,8491,1,-8262>>, <<8498,8498,1,28>>, <<8544,8559,1,16>>,
     <<8579,8579,1,1>>, <<9398,9423,1,26>>, <<11264,11311,1,48>>, <<11360,11360,1,1>>, <<11362,11362,1,-10743>>,
     <<11363,11363,1,-3814>>, <<11364,11364,1,-10727>>, <<11367,11371,2,1>>, <<11373,11373,1,-10780>>, <<11374,11374,1,-10749>>,
     <<11375,11375,1,-10783>>, <<11376,11376,1,-10782>>, <<11378,11378,1,1>>, <<11381,11381,1,1>>, <<11390,11391,1,-10815>>,
     <<11392,11490,2,1>>, <<11499,11501,2,1>>, <<11506,11506,1,1>>, <<42560,42604,2,1>>, <<42624,42650,2,1>>,
     <<42786,42798,2,1>>, <<42802,42862,2,1>>, <<42873,42875,2,1>>, <<42877,42877,1,-35332>>, <<42878,42886,2,1>>,
     <<42891,42891,1,1>>, <<42893,42893,1,-42280>>, <<42896,42898,2,1>>, <<42902,42920,2,1>>, <<42922,42922,1,-42308>>,
     <<42923,42923,1,-42319>>, <<42924,42924,1,-42315>>, <<42925,42925,1,-42305>>, <<42926,42926,1,-42308>>, <<42928,42928,1,-42258>>,
     <<42929,42929,1,-42282>>, <<42930,42930,1,-42261>>, <<42931,42931,1,928>>, <<42932,42946,2,1>>, <<42948,42948,1,-48>>,
     <<42949,42949,1,-42307>>, <<42950,42950,1,-35384>>, <<42951,42953,2,1>>, <<42955,42955,1,-42343>>, <<42956,42970,2,1>>,
     <<42972,42972,1,-42561>>, <<42997,42997,1,1>>, <<65313,65338,1,32>>, <<66560,66599,1,40>>, <<66736,66771,1,40>>,
     <<66928,66964,2,39>>, <<66929,66937,2,39>>, <<66941,66953,2,39>>, <<66957,66961,2,39>>, <<66965,66965,1,39>>,
     <<68736,68786,1,64>>, <<68944,68965,1,32>>, <<71840,71871,1,32>>, <<93760,93791,1,32>>, <<93856,93880,1,27>>,
     <<125184,125217,1,34>>}

\* the code points with the property Cased that are not Case_Ignorable, and
\* those that are Case_Ignorable (DerivedCoreProperties of the same version),
\* as intervals <<first, last>>
CasedRuns ==
    {<<65,90>>, <<97,122>>, <<170,170>>, <<181,181>>, <<186,186>>, <<192,214>>,
     <<216,246>>, <<248,442>>, <<444,447>>, <<452,659>>, <<662,687>>, <<880,883>>,
     <<886,887>>, <<891,893>>, <<895,895>>, <<902,902>>, <<904,906>>, <<908,908>>,
     <<910,929>>, <<931,1013>>, <<1015,1153>>, <<1162,1327>>, <<1329,1366>>, <<1376,1416>>,
     <<4256,4293>>, <<4295,4295>>, <<4301,4301>>, <<4304,4346>>, <<4349,4351>>, <<5024,5109>>,
     <<5112,5117>>, <<7296,7306>>, <<7312,7354>>, <<7357,7359>>, <<7424,7467>>, <<7531,7543>>,
     <<7545,7578>>, <<7680,7957>>, <<7960,7965>>, <<7968,8005>>, <<8008,8013>>, <<8016,8023>>,
     <<8025,8025>>, <<8027,8027>>, <<8029,8029>>, <<8031,8061>>, <<8064,8116>>, <<8118,8124>>,
     <<8126,8126>>, <<8130,8132>>, <<8134,8140>>, <<8144,8147>>, <<8150,8155>>, <<8160,8172>>,
     <<8178,8180>>, <<8182,8188>>, <<8450,8450>>, <<8455,8455>>, <<8458,8467>>, <<8469,8469>>,
     <<8473,8477>>, <<8484,8484>>, <<8486,8486>>, <<8488,8488>>, <<8490,8493>>, <<8495,8500>>,
     <<8505,8505>>, <<8508,8511>>, <<8517,8521>>, <<8526,8526>>, <<8544,8575>>, <<8579,8580>>,
     <<9398,9449>>, <<11264,11387>>, <<11390,11492>>, <<11499,11502>>, <<11506,11507>>, <<11520,11557>>,
     <<11559,11559>>, <<11565,11565>>, <<42560,42605>>, <<42624,42651>>, <<42786,42863>>, <<42865,42887>>,
     <<42891,42894>>, <<42896,42972>>, <<42997,42998>>, <<43002,43002>>, <<43824,43866>>, <<43872,43880>>,
     <<43888,43967>>, <<64256,64262>>, <<64275,64279>>, <<65313,65338>>, <<65345,65370>>, <<66560,66639>>,
     <<66736,66771>>, <<66776,66811>>, <<66928,66938>>, <<66940,66954>>, <<66956,66962>>, <<66964,66965>>,
     <<66967,66977>>, <<66979,66993>>, <<66995,67001>>, <<67003,67004>>, <<68736,68786>>, <<68800,68850>>,
     <<68944,68965>>, <<68976,68997>>, <<71840,71903>>, <<93760,93823>>, <<93856,93880>>, <<93883,93907>>,
     <<119808,119892>>, <<119894,119964>>, <<119966,119967>>, <<119970,119970>>, <<119973,119974>>, <<119977,119980>>,
     <<119982,119993>>, <<119995,119995>>, <<119997,120003>>, <<120005,120069>>, <<120071,120074>>, <<120077,120084>>,
     <<120086,120092>>, <<120094,120121>>, <<120123,120126>>, <<120128,120132>>, <<120134,120134>>, <<120138,120144>>,
     <<120146,120485>>, <<120488,120512>>, <<120514,120538>>, <<120540,120570>>, <<120572,120596>>, <<120598,120628>>,
     <<120630,120654>>, <<120656,120686>>, <<120688,120712>>, <<120714,120744>>, <<120746,120770>>, <<120772,120779>>,
     <<122624,122633>>, <<122635,122654>>, <<122661,122666>>, <<125184,125251>>, <<127280,127305>>, <<127312,127337>>,
     <<127344,127369>>}

CaseIgnorableRuns ==
    {<<39,39>>, <<46,46>>, <<58,58>>, <<94,94>>, <<96,96>>, <<168,168>>,
     <<173,173>>, <<175,175>>, <<180,180>>, <<183,184>>, <<688,879>>, <<884,885>>,
     <<890,890>>, <<900,901>>, <<903,903>>, <<1155,1161>>, <<1369,1369>>, <<1375,1375>>,
     <<1425,1469>>, <<1471,1471>>, <<1473,1474>>, <<1476,1477>>, <<1479,1479>>, <<1524,1524>>,
     <<1536,1541>>, <<1552,1562>>, <<1564,1564>>, <<1600,1600>>, <<1611,1631>>, <<1648,1648>>,
     <<1750,1757>>, <<1759,1768>>, <<1770,1773>>, <<1807,1807>>, <<1809,1809>>, <<1840,1866>>,
     <<1958,1968>>, <<2027,2037>>, <<2042,2042>>, <<2045,2045>>, <<2070,2093>>, <<2137,2139>>,
     <<2184,2184>>, <<2192,2193>>, <<2199,2207>>, <<2249,2306>>, <<2362,2362>>, <<2364,2364>>,
     <<2369,2376>>, <<2381,2381>>, <<2385,2391>>, <<2402,2403>>, <<2417,2417>>, <<2433,2433>>,
     <<2492,2492>>, <<2497,2500>>, <<2509,2509>>, <<2530,2531>>, <<2558,2558>>, <<2561,2562>>,
     <<2620,2620>>, <<2625,2626>>, <<2631,2632>>, <<2635,2637>>, <<2641,2641>>, <<2672,2673>>,
     <<2677,2677>>, <<2689,2690>>, <<2748,2748>>, <<2753,2757>>, <<2759,2760>>, <<2765,2765>>,
     <<2786,2787>>, <<2810,2815>>, <<2817,2817>>, <<2876,2876>>, <<2879,2879>>, <<2881,2884>>,
     <<2893,2893>>, <<2901,2902>>, <<2914,2915>>, <<2946,2946>>, <<3008,3008>>, <<3021,3021>>,
     <<3072,3072>>, <<3076,3076>>, <<3132,3132>>, <<3134,3136>>, <<3142,3144>>, <<3146,3149>>,
     <<3157,3158>>, <<3170,3171>>, <<3201,3201>>, <<3260,3260>>, <<3263,3263>>, <<3270,3270>>,
     <<3276,3277>>, <<3298,3299>>, <<3328,3329>>, <<3387,3388>>, <<3393,3396>>, <<3405,3405>>,
     <<3426,3427>>, <<3457,3457>>, <<3530,3530>>, <<3538,3540>>, <<3542,3542>>, <<3633,3633>>,
     <<3636,3642>>, <<3654,3662>>, <<3761,3761>>, <<3764,3772>>, <<3782,3782>>, <<3784,3790>>,
     <<3864,3865>>, <<3893,3893>>, <<3895,3895>>, <<3897,3897>>, <<3953,3966>>, <<3968,3972>>,
     <<3974,3975>>, <<3981,3991>>, <<3993,4028>>, <<4038,4038>>, <<4141,4144>>, <<4146,4151>>,
     <<4153,4154>>, <<4157,4158>>, <<4184,4185>>, <<4190,4192>>, <<4209,4212>>, <<4226,4226>>,
     <<4229,4230>>, <<4237,4237>>, <<4253,4253>>, <<4348,4348>>, <<4957,4959>>, <<5906,5908>>,
     <<5938,5939>>, <<5970,5971>>, <<6002,6003>>, <<6068,6069>>, <<6071,6077>>, <<6086,6086>>,
     <<6089,6099>>, <<6103,6103>>, <<6109,6109>>, <<6155,6159>>, <<6211,6211>>, <<6277,6278>>,
     <<6313,6313>>, <<6432,6434>>, <<6439,6440>>, <<6450,6450>>, <<6457,6459>>, <<6679,6680>>,
     <<6683,6683>>, <<6742,6742>>, <<6744,6750>>, <<6752,6752>>, <<6754,6754>>, <<6757,6764>>,
     <<6771,6780>>, <<6783,6783>>, <<6823,6823>>, <<6832,6877>>, <<6880,6891>>, <<6912,6915>>,
     <<6964,6964>>, <<6966,6970>>, <<6972,6972>>, <<6978,6978>>, <<7019,7027>>, <<7040,7041>>,
     <<7074,7077>>, <<7080,7081>>, <<7083,7085>>, <<7142,7142>>, <<7144,7145>>, <<7149,7149>>,
     <<7151,7153>>, <<7212,7219>>, <<7222,7223>>, <<7288,7293>>, <<7376,7378>>, <<7380,7392>>,
     <<7394,7400>>, <<7405,7405>>, <<7412,7412>>, <<7416,7417>>, <<7468,7530>>, <<7544,7544>>,
     <<7579,7679>>, <<8125,8125>>, <<8127,8129>>, <<8141,8143>>, <<8157,8159>>, <<8173,8175>>,
     <<8189,8190>>, <<8203,8207>>, <<8216,8217>>, <<8228,8228>>, <<8231,8231>>, <<8234,8238>>,
     <<8288,8292>>, <<8294,8303>>, <<8305,8305>>, <<8319,8319>>, <<8336,8348>>, <<8400,8432>>,
     <<11388,11389>>, <<11503,11505>>, <<11631,11631>>, <<11647,11647>>, <<11744,11775>>, <<11823,11823>>,
     <<12293,12293>>, <<12330,12333>>, <<12337,12341>>, <<12347,12347>>, <<12441,12446>>, <<12540,12542>>,
     <<40981,40981>>, <<42232,42237>>, <<42508,42508>>, <<42607,42610>>, <<42612,42621>>, <<42623,42623>>,
     <<42652,42655>>, <<42736,42737>>, <<42752,42785>>, <<42864,42864>>, <<42888,42890>>, <<42993,42996>>,
     <<43000,43001>>, <<43010,43010>>, <<43014,43014>>, <<43019,43019>>, <<43045,43046>>, <<43052,43052>>,
     <<43204,43205>>, <<43232,43249>>, <<43263,43263>>, <<43302,43309>>, <<43335,43345>>, <<43392,43394>>,
     <<43443,43443>>, <<43446,43449>>, <<43452,43453>>, <<43471,43471>>, <<43493,43494>>, <<43561,43566>>,
     <<43569,43570>>, <<43573,43574>>, <<43587,43587>>, <<43596,43596>>, <<43632,43632>>, <<43644,43644>>,
     <<43696,43696>>, <<43698,43700>>, <<43703,43704>>, <<43710,43711>>, <<43713,43713>>, <<43741,43741>>,
     <<43756,43757>>, <<43763,43764>>, <<43766,43766>>, <<43867,43871>>, <<43881,43883>>, <<44005,44005>>,
     <<44008,44008>>, <<44013,44013>>, <<64286,64286>>, <<64434,64450>>, <<65024,65039>>, <<65043,65043>>,
     <<65056,65071>>, <<65106,65106>>, <<65109,65109>>, <<65279,65279>>, <<65287,65287>>, <<65294,65294>>,
     <<65306,65306>>, <<65342,65342>>, <<65344,65344>>, <<65392,65392>>, <<65438,65439>>, <<65507,65507>>,
     <<65529,65531>>, <<66045,66045>>, <<66272,66272>>, <<66422,66426>>, <<67456,67461>>, <<67463,67504>>,
     <<67506,67514>>, <<68097,68099>>, <<68101,68102>>, <<68108,68111>>, <<68152,68154>>, <<68159,68159>>,
     <<68325,68326>>, <<68900,68903>>, <<68942,68942>>, <<68969,68973>>, <<68975,68975>>, <<69291,69292>>,
     <<69317,69317>>, <<69370,69375>>, <<69446,69456>>, <<69506,69509>>, <<69633,69633>>, <<69688,69702>>,
     <<69744,69744>>, <<69747,69748>>, <<69759,69761>>, <<69811,69814>>, <<69817,69818>>, <<69821,69821>>,
     <<69826,69826>>, <<69837,69837>>, <<69888,69890>>, <<69927,69931>>, <<69933,69940>>, <<70003,70003>>,
     <<70016,70017>>, <<70070,70078>>, <<70089,70092>>, <<70095,70095>>, <<70191,70193>>, <<70196,70196>>,
     <<70198,70199>>, <<70206,70206>>, <<70209,70209>>, <<70367,70367>>, <<70371,70378>>, <<70400,70401>>,
     <<70459,70460>>, <<70464,70464>>, <<70502,70508>>, <<70512,70516>>, <<70587,70592>>, <<70606,70606>>,
     <<70608,70608>>, <<70610,70610>>, <<70625,70626>>, <<70712,70719>>, <<70722,70724>>, <<70726,70726>>,
     <<70750,70750>>, <<70835,70840>>, <<70842,70842>>, <<70847,70848>>, <<70850,70851>>, <<71090,71093>>,
     <<71100,71101>>, <<71103,71104>>, <<71132,71133>>, <<71219,71226>>, <<71229,71229>>, <<71231,71232>>,
     <<71339,71339>>, <<71341,71341>>, <<71344,71349>>, <<71351,71351>>, <<71453,71453>>, <<71455,71455>>,
     <<71458,71461>>, <<71463,71467>>, <<71727,71735>>, <<71737,71738>>, <<71995,71996>>, <<71998,71998>>,
     <<72003,72003>>, <<72148,72151>>, <<72154,72155>>, <<72160,72160>>, <<72193,72202>>, <<72243,72248>>,
     <<72251,72254>>, <<72263,72263>>, <<72273,72278>>, <<72281,72283>>, <<72330,72342>>, <<72344,72345>>,
     <<72544,72544>>, <<72546,72548>>, <<72550,72550>>, <<72752,72758>>, <<72760,72765>>, <<72767,72767>>,
     <<72850,72871>>, <<72874,72880>>, <<72882,72883>>, <<72885,72886>>, <<73009,73014>>, <<73018,73018>>,
     <<73020,73021>>, <<73023,73029>>, <<73031,73031>>, <<73104,73105>>, <<73109,73109>>, <<73111,73111>>,
     <<73177,73177>>, <<73459,73460>>, <<73472,73473>>, <<73526,73530>>, <<73536,73536>>, <<73538,73538>>, <<73562,73562>>,
     <<78896,78912>>, <<78919,78933>>, <<90398,90409>>, <<90413,90415>>, <<92912,92916>>, <<92976,92982>>,
     <<92992,92995>>, <<93504,93506>>, <<93547,93548>>, <<94031,94031>>, <<94095,94111>>, <<94176,94177>>,
     <<94179,94180>>, <<94194,94195>>, <<110576,110579>>, <<110581,110587>>, <<110589,110590>>, <<113821,113822>>,
     <<113824,113827>>, <<118528,118573>>, <<118576,118598>>, <<119143,119145>>, <<119155,119170>>, <<119173,119179>>,
     <<119210,119213>>, <<119362,119364>>, <<121344,121398>>, <<121403,121452>>, <<121461,121461>>, <<121476,121476>>,
     <<121499,121503>>, <<121505,121519>>, <<122880,122886>>, <<122888,122904>>, <<122907,122913>>, <<122915,122916>>,
     <<122918,122922>>, <<122928,122989>>, <<123023,123023>>, <<123184,123197>>, <<123566,123566>>, <<123628,123631>>,
     <<124139,124143>>, <<124398,124399>>, <<124643,124643>>, <<124646,124646>>, <<124654,124655>>, <<124661,124661>>,
     <<124671,124671>>, <<125136,125142>>, <<125252,125259>>, <<127995,127999>>, <<917505,917505>>, <<917536,917631>>,
     <<917760,917999>>}

InRun(n, run) == run[1] <= n /\ n <= run[2] /\ (n - run[1]) % run[3] = 0
InInterval(n, run) == run[1] <= n /\ n <= run[2]

Cased(c) == \E n \in {CodePoint(c)} : \E run \in CasedRuns : InInterval(n, run)
CaseIgnorable(c) == \E n \in {CodePoint(c)} : \E run \in CaseIgnorableRuns : InInterval(n, run)

\* the lower case of the characters U+0020..U+007E
AsciiLowerCase ==
    [c \in {Ascii[i] : i \in DOMAIN Ascii} |->
        IF \E i \in DOMAIN Uppers : Uppers[i] = c
        THEN Lowers[CHOOSE i \in DOMAIN Uppers : Uppers[i] = c]
        ELSE c]

\* String.prototype.toLowerCase, one character out of context: the result is
\* a string, since U+0130 becomes two characters
LowerChar(c) ==
    IF c \in DOMAIN AsciiLowerCase THEN <<AsciiLowerCase[c]>>
    ELSE IF ~IsCodePointName(c) THEN <<c>>
    ELSE LET n == CodePoint(c)
         IN  IF n = 304 THEN <<"i", "U+0307">>
             ELSE IF \E run \in LowerCaseRuns : InRun(n, run)
             THEN <<Char(n + (CHOOSE run \in LowerCaseRuns : InRun(n, run))[4])>>
             ELSE <<c>>

\* SpecialCasing Final_Sigma: the sigma at s[i] follows a cased letter and
\* no cased letter follows it, case-ignorable characters set aside
FinalSigma(s, i) ==
    /\ \E j \in 1..(i - 1) :
            /\ Cased(s[j])
            /\ \A k \in (j + 1)..(i - 1) : CaseIgnorable(s[k])
    /\ ~\E j \in (i + 1)..Len(s) :
            /\ Cased(s[j])
            /\ \A k \in (i + 1)..(j - 1) : CaseIgnorable(s[k])

RECURSIVE LowerFrom(_, _)
LowerFrom(s, i) ==
    IF i > Len(s) THEN <<>>
    ELSE (IF s[i] = "U+03A3" /\ FinalSigma(s, i) THEN <<"U+03C2">> ELSE LowerChar(s[i]))
            \o LowerFrom(s, i + 1)

\* String.prototype.toLowerCase
toLowerCase(s) == LowerFrom(s, 1)

\* String.prototype.trim: drop leading and trailing white space
RECURSIVE TrimStart(_)
TrimStart(s) ==
    IF s # <<>> /\ Head(s) \in WhiteSpace THEN TrimStart(Tail(s)) ELSE s

RECURSIVE TrimEnd(_)
TrimEnd(s) ==
    IF s # <<>> /\ s[Len(s)] \in WhiteSpace
    THEN TrimEnd(SubSeq(s, 1, Len(s) - 1))
    ELSE s

trim(s) == TrimEnd(TrimStart(s))

\* index.ts line 65: email.toLowerCase().trim()
NormalizeEmailNoLower(email) == trim(email)
NormalizeEmail(email) == trim(toLowerCase(email))

(***************************************************************************)
(* The schema: applications(application_id UUID PK) and                    *)
(* waitlist_entries(id UUID PK, application_id FK ON DELETE CASCADE,       *)
(* email VARCHAR(320), source_url, country VARCHAR(2), created_at,         *)
(* UNIQUE(application_id, email), CHECK valid_email_format).               *)
(***************************************************************************)
EmailMaxLen == 320
CountryMaxLen == 2

\* the strings PostgreSQL's uuid type accepts, among those the model uses
UuidStrings == {"app1", "app2", "app3"}

\* [A-Za-z0-9._%+-]
LocalClass == Letters \cup Digits \cup {".", "_", "%", "+", "-"}
\* [A-Za-z0-9.-]
DomainClass == Letters \cup Digits \cup {".", "-"}

AllIn(s, lo, hi, class) == \A i \in lo..hi : s[i] \in class

\* CHECK (email ~* '^[A-Za-z0-9._%+-]+@[A-Za-z0-9.-]+\.[A-Za-z]{2,}$')
valid_email_format(email) ==
    \E e \in {email} : \E at \in 1..Len(e) : \E dot \in 1..Len(e) :
        /\ e[at] = "@"
        /\ e[dot] = "."
        /\ at >= 2
        /\ AllIn(e, 1, at - 1, LocalClass)
        /\ dot >= at + 2
        /\ AllIn(e, at + 1, dot - 1, DomainClass)
        /\ Len(e) >= dot + 2
        /\ AllIn(e, dot + 1, Len(e), Letters)

\* an optional column or field: {} is NULL / absent, {v} is the value v
Null == {}
Some(v) == {v}

\* UNIQUE(application_id, email)
UniqueViolationNever(rows, row) == FALSE
UniqueViolationEmailOnly(rows, row) == \E x \in rows : x.email = row.email
UniqueViolation(rows, row) ==
    \E x \in rows : x.application_id = row.application_id /\ x.email = row.email

\* application_id ... REFERENCES applications(application_id)
ForeignKeyViolation(apps, row) == row.application_id \notin apps

\* character varying(n): a longer value is refused unless the characters
\* in excess are all spaces; then it is stored cut to n characters
RECURSIVE Spaces(_)
Spaces(k) == IF k = 0 THEN "" ELSE " " \o Spaces(k - 1)

OverLength(s, n) == Len(s) > n /\ s # SubSeq(s, 1, n) \o Spaces(Len(s) - n)
Varchar(s, n) == IF Len(s) > n THEN SubSeq(s, 1, n) ELSE s

\* VARCHAR(320) / VARCHAR(2)
TooLong(row) ==
    \/ Len(row.email) > EmailMaxLen /\ \E i \in (EmailMaxLen + 1)..Len(row.email) : row.email[i] # " "
    \/ \E c \in row.country : OverLength(c, CountryMaxLen)

\* the row as the table holds it
Stored(row, n) ==
    [row EXCEPT !.email = IF Len(@) > EmailMaxLen THEN SubSeq(@, 1, EmailMaxLen) ELSE @,
                !.country = {Varchar(c, n) : c \in @}]

(***************************************************************************)
(* Database calls.  `fault` is "none" when the call reaches the database   *)
(* and is answered by it, "conn" when it fails before that (connection     *)
(* failure); a failed call returns an error object to the handler, it does *)
(* not throw.                                                              *)
(***************************************************************************)
\* from('applications').select('application_id').eq(...).single()
\*   -> [error |-> code or "none", found |-> BOOLEAN]
LookupWithoutSingle(apps, applicationId, fault) ==
    IF fault # "none" THEN [error |-> fault, found |-> FALSE]
    ELSE IF applicationId \notin UuidStrings THEN [error |-> "22P02", found |-> FALSE]
    ELSE [error |-> "none", found |-> TRUE]
LookupApplication(apps, applicationId, fault) ==
    IF fault # "none" THEN [error |-> fault, found |-> FALSE]
    ELSE IF applicationId \notin UuidStrings THEN [error |-> "22P02", found |-> FALSE]
    ELSE IF applicationId \notin apps THEN [error |-> "PGRST116", found |-> FALSE]
    ELSE [error |-> "none", found |-> TRUE]

\* from('waitlist_entries').insert(row).select('id').single(): the error code
\* PostgreSQL answers for the row, in the order it evaluates the constraints;
\* the CHECK and the unique index see the value as cut to the column's length
InsertErrorNoUnique(apps, rows, row, fault) ==
    IF fault # "none" THEN fault
    ELSE IF row.application_id \notin UuidStrings THEN "22P02"
    ELSE IF TooLong(row) THEN "22001"
    ELSE IF ~valid_email_format(Stored(row, CountryMaxLen).email) THEN "23514"
    ELSE IF ForeignKeyViolation(apps, row) THEN "23503"
    ELSE "none"
InsertErrorNoForeignKey(apps, rows, row, fault) ==
    IF fault # "none" THEN fault
    ELSE IF row.application_id \notin UuidStrings THEN "22P02"
    ELSE IF TooLong(row) THEN "22001"
    ELSE IF ~valid_email_format(Stored(row, CountryMaxLen).email) THEN "23514"
    ELSE IF UniqueViolation(rows, Stored(row, CountryMaxLen)) THEN "23505"
    ELSE "none"
InsertErrorNoCheck(apps, rows, row, fault) ==
    IF fault # "none" THEN fault
    ELSE IF row.application_id \notin UuidStrings THEN "22P02"
    ELSE IF TooLong(row) THEN "22001"
    ELSE IF UniqueViolation(rows, Stored(row, CountryMaxLen)) THEN "23505"
    ELSE IF ForeignKeyViolation(apps, row) THEN "23503"
    ELSE "none"
InsertError(apps, rows, row, fault) ==
    IF fault # "none" THEN fault
    ELSE IF row.application_id \notin UuidStrings THEN "22P02"
    ELSE IF TooLong(row) THEN "22001"
    ELSE IF ~valid_email_format(Stored(row, CountryMaxLen).email) THEN "23514"
    ELSE IF UniqueViolation(rows, Stored(row, CountryMaxLen)) THEN "23505"
    ELSE IF ForeignKeyViolation(apps, row) THEN "23503"
    ELSE "none"

\* id UUID PRIMARY KEY DEFAULT gen_random_uuid(): the primary key's index
\* refuses a row whose generated id is the id of a stored row
PrimaryKeyViolationNever(rows, id) == FALSE
PrimaryKeyViolation(rows, id) == \E x \in rows : x.id = id

\* the error of the insert once the default has generated the row's id: the
\* two unique indexes are checked before the foreign key
WithPrimaryKey(error, rows, id) ==
    IF error \in {"none", "23503"} /\ PrimaryKeyViolation(rows, id) THEN "23505" ELSE error

\* the table after the insert statement: the row is stored, with its
\* generated id, only when no constraint refused it
RowsAfterInsertAlways(rows, row, error, id) ==
    rows \cup {Stored(row, CountryMaxLen) @@ [id |-> id]}
RowsAfterInsertUpsert(rows, row, error, id) ==
    IF error = "none" THEN rows \cup {Stored(row, CountryMaxLen) @@ [id |-> id]}
    ELSE IF error = "23505"
    THEN {IF x.application_id = row.application_id /\ x.email = row.email
          THEN row @@ [id |-> x.id] ELSE x : x \in rows}
    ELSE rows
RowsAfterInsert(rows, row, error, id) ==
    IF error = "none" THEN rows \cup {Stored(row, CountryMaxLen) @@ [id |-> id]} ELSE rows

(***************************************************************************)
(* Requests.  A JSON object body is a function from the field names it     *)
(* carries to their values; a field it lacks destructures to undefined.    *)
(***************************************************************************)
NoBody == [x \in {} |-> x]
Field(name, values, optional) ==
    {[x \in {name} |-> v] : v \in values} \cup (IF optional THEN {NoBody} ELSE {})

\* the objects with each field drawn from its set; with `optional`, a field
\* may also be left out (country, the one optional field: with `noCountry`)
Objects(appIds, emails, urls, countries, optional, noCountry) ==
    {a @@ e @@ s @@ c :
        a \in Field("applicationId", appIds, optional),
        e \in Field("email", emails, optional),
        s \in Field("sourceUrl", urls, optional),
        c \in Field("country", countries, noCountry)}

Post(objects) == {[method |-> "POST", parse |-> "object", body |-> o] : o \in objects}

Has(body, f) == f \in DOMAIN body

\* !applicationId, !sourceUrl, country || null: undefined and "" are falsy
Falsy(body, f) == ~Has(body, f) \/ body[f] = ""
\* a value of the email field that is truthy and not a string (a number,
\* true, an array, an object)
NonString == <<"typeof email !== 'string'">>
IsString(v) == v # NonString

\* !email: undefined and the empty string are falsy
FalsyEmail(body) == ~Has(body, "email") \/ body.email = <<>>

\* index.ts line 39
MissingRequiredNoUrl(body) == Falsy(body, "applicationId") \/ FalsyEmail(body)
MissingRequiredTrimmed(body) ==
    \/ Falsy(body, "applicationId")
    \/ ~Has(body, "email") \/ trim(body.email) = <<>>
    \/ Falsy(body, "sourceUrl")
MissingRequired(body) ==
    Falsy(body, "applicationId") \/ FalsyEmail(body) \/ Falsy(body, "sourceUrl")

\* index.ts lines 63-69: the row handed to insert; `t` is the reading of the
\* clock, new Date().toISOString()
NewRowNoDefault(body, t) ==
    [application_id |-> body.applicationId,
     email          |-> NormalizeEmail(body.email),
     source_url     |-> body.sourceUrl,
     country        |-> IF Has(body, "country") THEN Some(body.country) ELSE Null,
     created_at     |-> t]
NewRow(body, t) ==
    [application_id |-> body.applicationId,
     email          |-> NormalizeEmail(body.email),
     source_url     |-> body.sourceUrl,
     country        |-> IF Falsy(body, "country") THEN Null ELSE Some(body.country),
     created_at     |-> t]

(***************************************************************************)
(* Responses.                                                              *)
(***************************************************************************)
corsHeaders ==
    [origin  |-> "*",
     headers |-> "authorization, x-client-info, apikey, content-type",
     methods |-> "POST, OPTIONS"]

JsonHeadersNoCors == [contentType |-> "application/json"]
JsonHeaders == corsHeaders @@ [contentType |-> "application/json"]

Json(status, body) == [status |-> status, json |-> body, headers |-> JsonHeaders]

\* index.ts line 20
Preflight == [status |-> 200, text |-> "ok", headers |-> corsHeaders]
\* index.ts lines 24-27
MethodNotAllowedAs404 == Json(404, [success |-> FALSE, message |-> "Method not allowed"])
MethodNotAllowed == Json(405, [success |-> FALSE, message |-> "Method not allowed"])
\* index.ts lines 40-43
MissingFields == Json(400, [success |-> FALSE, message |-> "Missing required fields"])
\* index.ts lines 54-57
InvalidApplication == Json(400, [success |-> FALSE, message |-> "Invalid application ID"])
\* index.ts lines 75-78
AlreadyRegisteredAs400 == Json(400, [success |-> FALSE, message |-> "Email already registered"])
AlreadyRegistered == Json(409, [success |-> FALSE, message |-> "Email already registered"])
\* index.ts lines 83-86
Joined(id) ==
    Json(201, [success |-> TRUE, id |-> id, message |-> "Successfully joined waitlist"])
\* index.ts lines 88-93: the catch block; `error` is what was thrown
InternalErrorLeaky(error) == Json(500, [success |-> FALSE, message |-> error])
InternalError(error) == Json(500, [success |-> FALSE, message |-> "Internal server error"])

\* index.ts lines 53-58: what the handler does with the lookup's result
LookupRejectsNever(res) == FALSE
LookupRejectsNoRowOnly(res) == res.error = "PGRST116"
LookupRejectsNotFoundOnly(res) == res.error = "none" /\ ~res.found
LookupRejects(res) == res.error # "none" \/ ~res.found

\* index.ts lines 73-86: the response for the insert's outcome
InsertResponseNo409(error, id) ==
    IF error = "none" THEN Joined(id) ELSE InternalError(error)
InsertResponseOncePerInstance(error, id) ==
    IF error = "none" /\ id = 1 THEN Joined(id)
    ELSE IF error = "23505" THEN AlreadyRegistered
    ELSE InternalError(error)
InsertResponse(error, id) ==
    IF error = "none" THEN Joined(id)
    ELSE IF error = "23505" THEN AlreadyRegistered
    ELSE InternalError(error)

NoReq == [method |-> "none"]
NoResp == [status |-> 0]

(***************************************************************************)
(* The handler, one action per stretch between two awaits.                 *)
(***************************************************************************)
\* lines 19-28: the method check, before the body is read
MethodResponseNoPreflight(q) ==
    IF q.method # "POST" THEN Some(MethodNotAllowed)
    ELSE Null
MethodResponseParseFirst(q) ==
    IF q.method = "OPTIONS" THEN Some(Preflight)
    ELSE IF q.parse = "error" THEN Some(InternalError("SyntaxError"))
    ELSE IF q.parse = "null" THEN Some(InternalError("TypeError"))
    ELSE IF q.method # "POST" THEN Some(MethodNotAllowed)
    ELSE Null
MethodResponse(q) ==
    IF q.method = "OPTIONS" THEN Some(Preflight)
    ELSE IF q.method # "POST" THEN Some(MethodNotAllowed)
    ELSE Null

\* lines 36-44: the parsed body is destructured and the required fields are
\* checked; req.json() rejects when the body is not JSON, destructuring
\* throws when it is null
BodyResponseNullAsEmpty(q) ==
    IF q.parse = "error" THEN Some(InternalError("SyntaxError"))
    ELSE IF q.parse = "null" THEN Some(MissingFields)
    ELSE IF MissingRequired(q.body) THEN Some(MissingFields)
    ELSE Null
BodyResponse(q) ==
    IF q.parse = "error" THEN Some(InternalError("SyntaxError"))
    ELSE IF q.parse = "null" THEN Some(InternalError("TypeError"))
    ELSE IF MissingRequired(q.body) THEN Some(MissingFields)
    ELSE Null

\* line 65: email.toLowerCase() throws when email is not a string
ThrowsOnEmail(body) == ~Has(body, "email") \/ ~IsString(body.email)

Done(r) == pc[r] = "done"

\* lines 19-35: the request arrives; the handler answers OPTIONS and every
\* method but POST at once, and otherwise awaits the body
Start(r, inputs) ==
    /\ pc[r] = "idle"
    /\ \A p \in DOMAIN pc : p < r => pc[p] # "idle"
    /\ \E q \in inputs :
        /\ req' = [req EXCEPT ![r] = q]
        /\ IF MethodResponse(q) = Null
           THEN /\ pc' = [pc EXCEPT ![r] = "parse"]
                /\ resp' = resp
           ELSE /\ pc' = [pc EXCEPT ![r] = "done"]
                /\ resp' = [resp EXCEPT ![r] = CHOOSE x \in MethodResponse(q) : TRUE]
    /\ prior' = [prior EXCEPT ![r] = {p \in DOMAIN pc : Done(p)}]
    /\ UNCHANGED <<applications, inactive, entries, nextId, now, calls, data, sent, policies, dbnow>>

\* lines 36-51: await req.json() settles; the handler checks the fields and
\* issues the application lookup
Parse(r) ==
    /\ pc[r] = "parse"
    /\ IF BodyResponse(req[r]) = Null
       THEN /\ pc' = [pc EXCEPT ![r] = "lookup"]
            /\ resp' = resp
       ELSE /\ pc' = [pc EXCEPT ![r] = "done"]
            /\ resp' = [resp EXCEPT ![r] = CHOOSE x \in BodyResponse(req[r]) : TRUE]
    /\ UNCHANGED <<applications, inactive, entries, nextId, now, req, calls, data, sent, prior, policies, dbnow>>

\* lines 47-51: the database executes the lookup; its answer travels back
Lookup(r, faults) ==
    /\ pc[r] = "lookup"
    /\ \E fault \in faults :
        \E res \in {LookupApplication(applications, req[r].body.applicationId, fault)} :
        /\ calls' = [calls EXCEPT ![r] = Append(@, [op |-> "lookup", error |-> res.error])]
        /\ data' = [data EXCEPT ![r] = Some(res)]
    /\ pc' = [pc EXCEPT ![r] = "check"]
    /\ UNCHANGED <<applications, inactive, entries, nextId, now, req, resp, sent, prior, policies, dbnow>>

\* lines 47-71: the handler resumes with the lookup's answer, checks it,
\* builds the row, reading the clock, and issues the insert
Check(r) ==
    /\ pc[r] = "check"
    /\ \E res \in data[r] :
        IF LookupRejects(res)
        THEN /\ pc' = [pc EXCEPT ![r] = "done"]
             /\ resp' = [resp EXCEPT ![r] = InvalidApplication]
             /\ sent' = sent
        ELSE IF ThrowsOnEmail(req[r].body)
        THEN /\ pc' = [pc EXCEPT ![r] = "done"]
             /\ resp' = [resp EXCEPT ![r] = InternalError("TypeError")]
             /\ sent' = sent
        ELSE /\ pc' = [pc EXCEPT ![r] = "insert"]
             /\ resp' = resp
             /\ sent' = [sent EXCEPT ![r] = Some(NewRow(req[r].body, now))]
    /\ UNCHANGED <<applications, inactive, entries, nextId, now, req, calls, data, prior, policies, dbnow>>

\* gen_random_uuid() taken to return a value it has not returned before: the
\* next value of a counter
FreshIds == {nextId}

\* lines 61-71: the database executes the insert of the row it was sent,
\* the column default drawing the id from ids; its answer, the new id or the
\* error, travels back
Insert(r, faults, ids) ==
    /\ pc[r] = "insert"
    /\ \E fault \in faults :
      \E row \in sent[r] :
       \E id \in ids :
        \E error \in {WithPrimaryKey(InsertError(applications, entries, row, fault),
                                     entries, id)} :
        /\ calls' = [calls EXCEPT ![r] = Append(@, [op |-> "insert", error |-> error])]
        /\ entries' = RowsAfterInsert(entries, row, error, id)
        /\ nextId' = IF error = "none" THEN nextId + 1 ELSE nextId
        /\ data' = [data EXCEPT ![r] =
                        Some([error |-> error, id |-> IF error = "none" THEN id ELSE 0])]
    /\ pc' = [pc EXCEPT ![r] = "respond"]
    /\ UNCHANGED <<applications, inactive, now, req, resp, sent, prior, policies, dbnow>>

\* lines 61-94: the handler resumes with the insert's answer and responds
Respond(r) ==
    /\ pc[r] = "respond"
    /\ \E res \in data[r] :
        resp' = [resp EXCEPT ![r] = InsertResponse(res.error, res.id)]
    /\ pc' = [pc EXCEPT ![r] = "done"]
    /\ UNCHANGED <<applications, inactive, entries, nextId, now, req, calls, data, sent, prior, policies, dbnow>>

(***************************************************************************)
(* Out-of-band changes of the applications table.                          *)
(***************************************************************************)
AppIds == {"app1", "app2"}

CreateApplication(a) ==
    /\ a \notin applications
    /\ applications' = applications \cup {a}
    /\ UNCHANGED <<inactive, entries, nextId, now, pc, req, resp, calls, data, sent, prior, policies, dbnow>>

\* ON DELETE CASCADE
DeleteApplicationNoCascade(a) ==
    /\ a \in applications
    /\ applications' = applications \ {a}
    /\ inactive' = inactive \ {a}
    /\ UNCHANGED <<entries, nextId, now, pc, req, resp, calls, data, sent, prior, policies, dbnow>>
DeleteApplication(a) ==
    /\ a \in applications
    /\ applications' = applications \ {a}
    /\ entries' = {x \in entries : x.application_id # a}
    /\ inactive' = inactive \ {a}
    /\ UNCHANGED <<nextId, now, pc, req, resp, calls, data, sent, prior, policies, dbnow>>

\* time passes
Tick ==
    /\ now < MaxTime
    /\ now' = now + 1
    /\ UNCHANGED <<applications, inactive, entries, nextId, pc, req, resp, calls, data, sent, prior, policies, dbnow>>

(***************************************************************************)
(* Inputs.                                                                 *)
(***************************************************************************)
InfraFaults == {"conn"}
Healthy == {"none"}
AnyFault == Healthy \cup InfraFaults

EmailA      == <<"a","@","b",".","c","o">>
EmailAMixed == <<" ","A","@","B",".","c","o"," ">>
EmailC      == <<"c","@","b",".","c","o">>
EmailBad    == <<"a","b">>
EmailBlank  == <<" ">>
\* written with the Kelvin sign, whose lower case is the letter k, between
\* a form feed and a line tabulation
EmailFeed   == <<"\f","U+212A","@","B",".","c","o","U+000B">>
EmailEmpty  == <<>>
EmailK      == <<"k","@","b",".","c","o">>
EmailKMixed == <<" ","K","@","B",".","c","o"," ">>
\* written with the Kelvin sign, whose lower case is the letter k
EmailKelvin == <<"U+212A","@","b",".","C","O">>
\* written with the dotted capital I, whose lower case is two characters
EmailDotted == <<"U+0130","@","b",".","c","o">>
Url         == "https://x.com"

\* the signup requests of the general specification: one email written two
\* ways and a malformed one for one application, and the first email for
\* another application
CoreInputs ==
    Post(Objects({"app1"}, {EmailA, EmailAMixed, EmailBad}, {Url}, {"US"}, FALSE, FALSE))
    \cup Post(Objects({"app2"}, {EmailA}, {Url}, {}, FALSE, TRUE))

\* one request for each rejection that happens before the lookup
RejectInputs ==
    Post(Objects({"app1"}, {EmailEmpty}, {Url}, {"US"}, FALSE, FALSE))
    \cup {[method |-> "POST", parse |-> "error"],
          [method |-> "GET", parse |-> "error"],
          [method |-> "OPTIONS", parse |-> "error"]}

Inputs == CoreInputs \cup RejectInputs

(***************************************************************************)
(* The general specification: MaxReqs requests, each any of Inputs, run    *)
(* concurrently against a database that holds two applications, whose      *)
(* calls may fail, and one of whose applications is deleted and created    *)
(* again out of band.                                                      *)
(***************************************************************************)
InitFor(rs, apps) ==
    /\ applications = apps
    /\ inactive = {}
    /\ policies = {}
    /\ dbnow = 1
    /\ entries = {}
    /\ nextId = 1
    /\ now = 1
    /\ pc = [r \in rs |-> "idle"]
    /\ req = [r \in rs |-> NoReq]
    /\ resp = [r \in rs |-> NoResp]
    /\ calls = [r \in rs |-> <<>>]
    /\ data = [r \in rs |-> Null]
    /\ sent = [r \in rs |-> Null]
    /\ prior = [r \in rs |-> {}]

Init == InitFor(Reqs, {"app1", "app2"})

Next ==
    \/ \E r \in Reqs : Start(r, Inputs)
    \/ \E r \in Reqs : Parse(r)
    \/ \E r \in Reqs : Lookup(r, AnyFault)
    \/ \E r \in Reqs : Check(r)
    \/ \E r \in Reqs : Insert(r, AnyFault, FreshIds)
    \/ \E r \in Reqs : Respond(r)
    \/ \E a \in {"app1"} : CreateApplication(a)
    \/ \E a \in {"app1"} : DeleteApplication(a)

Spec == Init /\ [][Next]_vars

(***************************************************************************)
(* The race: MaxRacers valid requests for one existing application whose   *)
(* emails normalize to the same value, no entry stored yet, the database   *)
(* answering every call.                                                   *)
(***************************************************************************)
RaceInputs ==
    Post(Objects({"app1"}, {EmailK, EmailKMixed, EmailKelvin}, {Url}, {"US"}, FALSE, FALSE))

InitRace == InitFor(Racers, {"app1"})

NextRace ==
    \/ \E r \in Racers : Start(r, RaceInputs)
    \/ \E r \in Racers : Parse(r)
    \/ \E r \in Racers : Lookup(r, Healthy)
    \/ \E r \in Racers : Check(r)
    \/ \E r \in Racers : Insert(r, Healthy, FreshIds)
    \/ \E r \in Racers : Respond(r)

SpecRace == InitRace /\ [][NextRace]_vars

(***************************************************************************)
(* The wide specification: every combination of present, empty and absent  *)
(* fields, of known, unknown and malformed application identifiers, and    *)
(* every method, against any set of existing applications.                 *)
(***************************************************************************)
\* a body that parses to a number, a string or a boolean: destructuring it
\* (line 36) does not throw and leaves every field undefined
ScalarBody == [method |-> "POST", parse |-> "scalar", body |-> NoBody]

WideInputs ==
    Post(Objects({"", "app1", "app3", "not-a-uuid"},
                 {EmailEmpty, EmailBlank, EmailA, EmailBad},
                 {"", Url}, {"US"}, TRUE, FALSE))
    \cup Post(Objects({"app1", "app3"}, {EmailA, EmailBlank}, {Url}, {""}, FALSE, TRUE))
    \cup Post(Objects({"app1"}, {EmailFeed, NonString}, {Url}, {"US", "USA"}, FALSE, FALSE))
    \cup Post(Objects({"app1"}, {EmailDotted}, {Url}, {"US"}, FALSE, FALSE))
    \cup {[method |-> m, parse |-> p] :
            m \in {"POST", "GET", "PUT", "DELETE", "OPTIONS"}, p \in {"error", "null"}}
    \cup {ScalarBody}
    \cup {[method |-> m, parse |-> "object", body |-> o] :
            m \in {"GET", "OPTIONS"},
            o \in Objects({"app1"}, {EmailA}, {Url}, {"US"}, TRUE, FALSE)}

InitWide == InitFor(WideReqs, {"app1"})

NextWide ==
    \/ \E r \in WideReqs : Start(r, WideInputs)
    \/ \E r \in WideReqs : Parse(r)
    \/ \E r \in WideReqs : Lookup(r, AnyFault)
    \/ \E r \in WideReqs : Check(r)
    \/ \E r \in WideReqs : Insert(r, AnyFault, FreshIds)
    \/ \E r \in WideReqs : Respond(r)
    \/ \E a \in AppIds : CreateApplication(a)
    \/ \E a \in AppIds : DeleteApplication(a)

SpecWide == InitWide /\ [][NextWide]_vars

(***************************************************************************)
(* The seeded specification: the wide inputs against a database that       *)
(* already holds the entry of an earlier signup, (app1, a@b.co).           *)
(***************************************************************************)
SeedRow ==
    [id |-> 1, application_id |-> "app1", email |-> EmailA, source_url |-> Url,
     country |-> Some("US"), created_at |-> 1]

InitSeeded ==
    /\ applications = {"app1"}
    /\ inactive = {}
    /\ policies = {}
    /\ dbnow = 1
    /\ entries = {SeedRow}
    /\ nextId = 2
    /\ now = 1
    /\ pc = [r \in WideReqs |-> "idle"]
    /\ req = [r \in WideReqs |-> NoReq]
    /\ resp = [r \in WideReqs |-> NoResp]
    /\ calls = [r \in WideReqs |-> <<>>]
    /\ data = [r \in WideReqs |-> Null]
    /\ sent = [r \in WideReqs |-> Null]
    /\ prior = [r \in WideReqs |-> {}]

\* the wide inputs and a signup of an email that is not registered yet, with
\* and without a country, and with a country followed by a space
SeededInputs ==
    WideInputs \cup Post(Objects({"app1"}, {EmailC}, {Url}, {"", "US", "US "}, FALSE, TRUE))

NextSeeded ==
    \/ \E r \in WideReqs : Start(r, SeededInputs)
    \/ \E r \in WideReqs : Parse(r)
    \/ \E r \in WideReqs : Lookup(r, AnyFault)
    \/ \E r \in WideReqs : Check(r)
    \/ \E r \in WideReqs : Insert(r, AnyFault, FreshIds)
    \/ \E r \in WideReqs : Respond(r)
    \/ \E a \in AppIds : CreateApplication(a)
    \/ \E a \in AppIds : DeleteApplication(a)

SpecSeeded == InitSeeded /\ [][NextSeeded]_vars

(***************************************************************************)
(* The specification where time passes: signups of one email, written two  *)
(* ways, with different source URLs and countries, while the clock ticks.  *)
(***************************************************************************)
Url2 == "https://y.com"

ClockInputs ==
    Post(Objects({"app1"}, {EmailA}, {Url}, {"US"}, FALSE, FALSE))
    \cup Post(Objects({"app1"}, {EmailAMixed}, {Url2}, {}, FALSE, TRUE))

NextClock ==
    \/ \E r \in Reqs : Start(r, ClockInputs)
    \/ \E r \in Reqs : Parse(r)
    \/ \E r \in Reqs : Lookup(r, Healthy)
    \/ \E r \in Reqs : Check(r)
    \/ \E r \in Reqs : Insert(r, Healthy, FreshIds)
    \/ \E r \in Reqs : Respond(r)
    \/ \E a \in {"app1"} : CreateApplication(a)
    \/ \E a \in {"app1"} : DeleteApplication(a)
    \/ Tick

SpecClock == Init /\ [][NextClock]_vars

(***************************************************************************)
(* The identifiers: requests for one existing application, where           *)
(* gen_random_uuid() may return any value, one it returned before          *)
(* included, so that only the primary key keeps the ids apart.  Nothing is *)
(* deleted.                                                                *)
(***************************************************************************)
\* the values gen_random_uuid() returns
Uuids == 1..MaxIds

IdInputs ==
    Post(Objects({"app1"}, {EmailA, EmailC}, {Url}, {"US"}, FALSE, FALSE))

InitIds == InitFor(Reqs, {"app1"})

NextIds ==
    \/ \E r \in Reqs : Start(r, IdInputs)
    \/ \E r \in Reqs : Parse(r)
    \/ \E r \in Reqs : Lookup(r, AnyFault)
    \/ \E r \in Reqs : Check(r)
    \/ \E r \in Reqs : Insert(r, AnyFault, Uuids)
    \/ \E r \in Reqs : Respond(r)

SpecIds == InitIds /\ [][NextIds]_vars

(***************************************************************************)
(* The extended variant of the handler (architecture document): the        *)
(* lookup also filters on is_active, the insert stores the client address  *)
(* and leaves joined_at to the column default NOW(), and a third database  *)
(* call counts the entries of the application to report a position.  It    *)
(* has no required-fields check.  Its client is created with the anon key, *)
(* and both tables have row level security enabled, with the policies of   *)
(* the document, which are for the role authenticated; policies for anon   *)
(* are created out of band.  The constraints valid_email_format and        *)
(* valid_source_url of the document's validation section are in force.     *)
(***************************************************************************)
\* country VARCHAR(3)
CountryMaxLenExt == 3

\* texts PostgreSQL accepts for the INET column ip_address
InetStrings == {"203.0.113.7"}

\* x-forwarded-for || x-real-ip || 'unknown'; `ip` is Null when the request
\* carries neither header
clientIP(ip) == IF ip = Null THEN "unknown" ELSE CHOOSE x \in ip : TRUE

\* createClient(SUPABASE_URL, SUPABASE_ANON_KEY): the role of every statement
Role == "anon"

\* CREATE POLICY ... ON table FOR command TO role USING (true)
DocumentPolicies ==
    {<<"applications", "SELECT", "authenticated">>,
     <<"waitlist_entries", "SELECT", "authenticated">>}

\* row level security: the command is allowed on the table's rows when a
\* policy for it names the role; with no such policy no row is visible and
\* no row may be written
Allowed(pol, table, command) == <<table, command, Role>> \in pol

\* the text a filter or a column is sent for a field; a field the body lacks
\* is undefined: .eq() sends the text undefined, the row omits the column
EqValue(body, f) == IF Has(body, f) THEN body[f] ELSE "undefined"

\* .eq('id', applicationId).eq('is_active', true).single()
LookupActiveApplication(apps, off, pol, applicationId, fault) ==
    LookupApplication(IF Allowed(pol, "applications", "SELECT") THEN apps \ off ELSE {},
                      applicationId, fault)

\* the row handed to insert by the extended variant; source_url is left out
\* when the body has no sourceUrl
NewRowExt(q) ==
    [application_id |-> q.body.applicationId,
     email          |-> NormalizeEmail(q.body.email),
     source_url     |-> IF Has(q.body, "sourceUrl") THEN Some(q.body.sourceUrl) ELSE Null,
     country        |-> IF Falsy(q.body, "country") THEN Null ELSE Some(q.body.country),
     ip_address     |-> clientIP(q.ip)]

\* VARCHAR(320) / VARCHAR(3)
TooLongExt(row) ==
    \/ Len(row.email) > EmailMaxLen /\ \E i \in (EmailMaxLen + 1)..Len(row.email) : row.email[i] # " "
    \/ \E c \in row.country : OverLength(c, CountryMaxLenExt)

\* the characters the regular expression class \s matches
RegexSpace == {" ", "\t", "\n", "\r", "\f", "U+000B"}

\* validate_url: url ~* '^https?://[^\s/$.?#].[^\s]*$'
validate_url(url) ==
    \E scheme \in {"http://", "https://"} :
        \E k \in {Len(scheme)} :
            /\ Len(url) >= k + 2
            /\ \A i \in 1..k : LowerChar(SubSeq(url, i, i)) = <<SubSeq(scheme, i, i)>>
            /\ SubSeq(url, k + 1, k + 1) \notin RegexSpace \cup {"/", "$", ".", "?", "#"}
            /\ \A i \in (k + 3)..Len(url) : SubSeq(url, i, i) \notin RegexSpace

\* validate_email: the regular expression of the initial schema's check
validate_email(email) == valid_email_format(email)

\* the error PostgreSQL answers for the row: the casts of the values, row
\* level security (the INSERT policy, and the SELECT policy for the
\* returned id), NOT NULL, the two CHECK constraints, the unique index and
\* the foreign key, in this order; the constraints see the values as cut
InsertErrorExt(apps, rows, pol, row, fault) ==
    IF fault # "none" THEN fault
    ELSE IF row.application_id \notin UuidStrings THEN "22P02"
    ELSE IF row.ip_address \notin InetStrings THEN "22P02"
    ELSE IF TooLongExt(row) THEN "22001"
    ELSE IF ~Allowed(pol, "waitlist_entries", "INSERT") THEN "42501"
    ELSE IF ~Allowed(pol, "waitlist_entries", "SELECT") THEN "42501"
    ELSE IF row.source_url = Null THEN "23502"
    ELSE IF ~validate_email(Stored(row, CountryMaxLenExt).email) THEN "23514"
    ELSE IF \E url \in row.source_url : ~validate_url(url) THEN "23514"
    ELSE IF UniqueViolation(rows, Stored(row, CountryMaxLenExt)) THEN "23505"
    ELSE IF ForeignKeyViolation(apps, row) THEN "23503"
    ELSE "none"

\* joined_at ... DEFAULT NOW(): the row is stored with the time t at which
\* its transaction started
RowsAfterInsertExt(rows, row, error, id, t) ==
    IF error = "none"
    THEN rows \cup {Stored(row, CountryMaxLenExt) @@ [id |-> id, joined_at |-> t]}
    ELSE rows

\* select('*', {count: 'exact', head: true}).eq('application_id', ...)
\*   .lte('joined_at', new Date().toISOString()); a failed call has no count
CountEntries(rows, pol, applicationId, t, fault) ==
    IF fault # "none" THEN Null
    ELSE IF ~Allowed(pol, "waitlist_entries", "SELECT") THEN Some(0)
    ELSE Some(Cardinality({x \in rows : x.application_id = applicationId /\ x.joined_at <= t}))

\* count || 0
Position(count) == IF count = Null THEN 0 ELSE CHOOSE n \in count : TRUE

InvalidApplicationExt == Json(400, [success |-> FALSE, message |-> "Invalid application"])

JoinedExt(id, position) ==
    Json(201, [success |-> TRUE, message |-> "Successfully joined waitlist",
               data |-> [id |-> id, position |-> position]])

\* the extended variant has no required-fields check
BodyResponseExt(q) ==
    IF q.parse = "error" THEN Some(InternalError("SyntaxError"))
    ELSE IF q.parse = "null" THEN Some(InternalError("TypeError"))
    ELSE Null

StartExt(r, inputs) ==
    /\ pc[r] = "idle"
    /\ \A p \in DOMAIN pc : p < r => pc[p] # "idle"
    /\ \E q \in inputs :
        /\ req' = [req EXCEPT ![r] = q]
        /\ IF MethodResponse(q) = Null
           THEN /\ pc' = [pc EXCEPT ![r] = "parse"]
                /\ resp' = resp
           ELSE /\ pc' = [pc EXCEPT ![r] = "done"]
                /\ resp' = [resp EXCEPT ![r] = CHOOSE x \in MethodResponse(q) : TRUE]
    /\ prior' = [prior EXCEPT ![r] = {p \in DOMAIN pc : Done(p)}]
    /\ UNCHANGED <<applications, inactive, policies, entries, nextId, now, dbnow,
                   calls, data, sent>>

ParseExt(r) ==
    /\ pc[r] = "parse"
    /\ IF BodyResponseExt(req[r]) = Null
       THEN /\ pc' = [pc EXCEPT ![r] = "lookup"]
            /\ resp' = resp
       ELSE /\ pc' = [pc EXCEPT ![r] = "done"]
            /\ resp' = [resp EXCEPT ![r] = CHOOSE x \in BodyResponseExt(req[r]) : TRUE]
    /\ UNCHANGED <<applications, inactive, policies, entries, nextId, now, dbnow,
                   req, calls, data, sent, prior>>

LookupExt(r, faults) ==
    /\ pc[r] = "lookup"
    /\ \E fault \in faults :
        \E res \in {LookupActiveApplication(applications, inactive, policies,
                                            EqValue(req[r].body, "applicationId"), fault)} :
        /\ calls' = [calls EXCEPT ![r] = Append(@, [op |-> "lookup", error |-> res.error])]
        /\ data' = [data EXCEPT ![r] = Some(res)]
    /\ pc' = [pc EXCEPT ![r] = "check"]
    /\ UNCHANGED <<applications, inactive, policies, entries, nextId, now, dbnow,
                   req, resp, sent, prior>>

CheckExt(r) ==
    /\ pc[r] = "check"
    /\ \E res \in data[r] :
        IF LookupRejects(res)
        THEN /\ pc' = [pc EXCEPT ![r] = "done"]
             /\ resp' = [resp EXCEPT ![r] = InvalidApplicationExt]
             /\ sent' = sent
        ELSE IF ThrowsOnEmail(req[r].body)
        THEN /\ pc' = [pc EXCEPT ![r] = "done"]
             /\ resp' = [resp EXCEPT ![r] = InternalError("TypeError")]
             /\ sent' = sent
        ELSE /\ pc' = [pc EXCEPT ![r] = "insert"]
             /\ resp' = resp
             /\ sent' = [sent EXCEPT ![r] = Some(NewRowExt(req[r]))]
    /\ UNCHANGED <<applications, inactive, policies, entries, nextId, now, dbnow,
                   req, calls, data, prior>>

\* the insert reaches the database, or fails on the way: the transaction of
\* the statement starts, and NOW(), the default of joined_at, is the time of
\* that start
BeginExt(r, faults) ==
    /\ pc[r] = "insert"
    /\ \E fault \in faults :
      \E row \in sent[r] :
        IF fault = "none"
        THEN /\ sent' = [sent EXCEPT ![r] = Some(row @@ [joined_at |-> dbnow])]
             /\ pc' = [pc EXCEPT ![r] = "commit"]
             /\ UNCHANGED <<calls, data>>
        ELSE /\ calls' = [calls EXCEPT ![r] = Append(@, [op |-> "insert", error |-> fault])]
             /\ data' = [data EXCEPT ![r] = Some([error |-> fault, id |-> 0])]
             /\ pc' = [pc EXCEPT ![r] = "respond"]
             /\ sent' = sent
    /\ UNCHANGED <<applications, inactive, policies, entries, nextId, now, dbnow,
                   req, resp, prior>>

\* the database checks the row against the table as it is now and commits:
\* the row becomes visible, with the joined_at of the transaction's start
InsertExt(r) ==
    /\ pc[r] = "commit"
    /\ \E row \in sent[r] :
       \E id \in FreshIds :
        \E error \in {WithPrimaryKey(
                          InsertErrorExt(applications, entries, policies, row, "none"),
                          entries, id)} :
        /\ calls' = [calls EXCEPT ![r] = Append(@, [op |-> "insert", error |-> error])]
        /\ entries' = RowsAfterInsertExt(entries, row, error, id, row.joined_at)
        /\ nextId' = IF error = "none" THEN nextId + 1 ELSE nextId
        /\ data' = [data EXCEPT ![r] =
                        Some([error |-> error, id |-> IF error = "none" THEN id ELSE 0])]
    /\ pc' = [pc EXCEPT ![r] = "respond"]
    /\ UNCHANGED <<applications, inactive, policies, now, dbnow, req, resp, sent, prior>>

\* the handler resumes with the insert's answer: it responds to an error, or
\* reads its own clock and issues the count
RespondExt(r) ==
    /\ pc[r] = "respond"
    /\ \E res \in data[r] :
        IF res.error = "none"
        THEN /\ pc' = [pc EXCEPT ![r] = "count"]
             /\ resp' = resp
             /\ sent' = [sent EXCEPT ![r] =
                            Some([application_id |-> req[r].body.applicationId,
                                  id |-> res.id, lte |-> now])]
        ELSE /\ pc' = [pc EXCEPT ![r] = "done"]
             /\ resp' = [resp EXCEPT ![r] = InsertResponse(res.error, res.id)]
             /\ sent' = sent
    /\ UNCHANGED <<applications, inactive, policies, entries, nextId, now, dbnow,
                   req, calls, data, prior>>

\* the database executes the count; its answer travels back
CountExt(r, faults) ==
    /\ pc[r] = "count"
    /\ \E fault \in faults :
      \E query \in sent[r] :
        /\ calls' = [calls EXCEPT ![r] = Append(@, [op |-> "count", error |-> fault])]
        /\ data' = [data EXCEPT ![r] =
                        Some([id |-> query.id,
                              count |-> CountEntries(entries, policies, query.application_id,
                                                     query.lte, fault)])]
    /\ pc' = [pc EXCEPT ![r] = "answer"]
    /\ UNCHANGED <<applications, inactive, policies, entries, nextId, now, dbnow,
                   req, resp, sent, prior>>

\* the handler resumes with the count and responds
AnswerExt(r) ==
    /\ pc[r] = "answer"
    /\ \E res \in data[r] :
        resp' = [resp EXCEPT ![r] = JoinedExt(res.id, Position(res.count))]
    /\ pc' = [pc EXCEPT ![r] = "done"]
    /\ UNCHANGED <<applications, inactive, policies, entries, nextId, now, dbnow,
                   req, calls, data, sent, prior>>

\* out-of-band changes of is_active
Deactivate(a) ==
    /\ a \in applications \ inactive
    /\ inactive' = inactive \cup {a}
    /\ UNCHANGED <<applications, policies, entries, nextId, now, dbnow,
                   pc, req, resp, calls, data, sent, prior>>

Activate(a) ==
    /\ a \in inactive
    /\ inactive' = inactive \ {a}
    /\ UNCHANGED <<applications, policies, entries, nextId, now, dbnow,
                   pc, req, resp, calls, data, sent, prior>>

\* the policies that let the function's role read the applications, insert
\* an entry and read the entries
AnonPolicies ==
    {<<"applications", "SELECT", Role>>,
     <<"waitlist_entries", "INSERT", Role>>,
     <<"waitlist_entries", "SELECT", Role>>}

\* out of band: CREATE POLICY
CreatePolicy(p) ==
    /\ p \notin policies
    /\ policies' = policies \cup {p}
    /\ UNCHANGED <<applications, inactive, entries, nextId, now, dbnow,
                   pc, req, resp, calls, data, sent, prior>>

\* the database's clock advances
TickDb ==
    /\ dbnow < MaxTime
    /\ dbnow' = dbnow + 1
    /\ UNCHANGED <<applications, inactive, policies, entries, nextId, now,
                   pc, req, resp, calls, data, sent, prior>>

UrlFtp == "ftp://x.com"

\* signups with the client address in a header: two emails, a country of
\* three characters and a space, one of four characters, an inactive and an
\* unknown application, a malformed email, a source URL that is not http,
\* a body without sourceUrl and a body that is a number; a signup without
\* the header; a GET; a body that does not parse
ExtInputs ==
    {q @@ [ip |-> Some("203.0.113.7")] :
        q \in Post(Objects({"app1"}, {EmailA, EmailC}, {Url}, {"US"}, FALSE, FALSE))
              \cup Post(Objects({"app1"}, {EmailC}, {Url}, {"USA ", "USAX"}, FALSE, FALSE))
              \cup Post(Objects({"app2", "app3"}, {EmailA}, {Url}, {"USA"}, FALSE, FALSE))
              \cup Post(Objects({"app1"}, {EmailBad}, {Url}, {"US"}, FALSE, FALSE))
              \cup Post(Objects({"app1"}, {EmailA}, {UrlFtp}, {"US"}, FALSE, FALSE))
              \cup Post(Objects({"app1"}, {EmailA}, {}, {"US"}, TRUE, FALSE))
              \cup {ScalarBody}}
    \cup {q @@ [ip |-> Null] :
        q \in Post(Objects({"app1"}, {EmailA}, {Url}, {"US"}, FALSE, FALSE))
              \cup {[method |-> "GET", parse |-> "error"],
                    [method |-> "POST", parse |-> "error"]}}

\* app1 is active, app2 exists and is not; the policies are the document's
InitExt ==
    /\ applications = {"app1", "app2"}
    /\ inactive = {"app2"}
    /\ policies = DocumentPolicies
    /\ entries = {}
    /\ nextId = 1
    /\ now = 1
    /\ dbnow = 1
    /\ pc = [r \in Reqs |-> "idle"]
    /\ req = [r \in Reqs |-> NoReq]
    /\ resp = [r \in Reqs |-> NoResp]
    /\ calls = [r \in Reqs |-> <<>>]
    /\ data = [r \in Reqs |-> Null]
    /\ sent = [r \in Reqs |-> Null]
    /\ prior = [r \in Reqs |-> {}]

NextExt ==
    \/ \E r \in Reqs : StartExt(r, ExtInputs)
    \/ \E r \in Reqs : ParseExt(r)
    \/ \E r \in Reqs : LookupExt(r, AnyFault)
    \/ \E r \in Reqs : CheckExt(r)
    \/ \E r \in Reqs : BeginExt(r, AnyFault)
    \/ \E r \in Reqs : InsertExt(r)
    \/ \E r \in Reqs : RespondExt(r)
    \/ \E r \in Reqs : CountExt(r, AnyFault)
    \/ \E r \in Reqs : AnswerExt(r)
    \/ \E a \in {"app2"} : Deactivate(a)
    \/ \E a \in {"app2"} : Activate(a)
    \/ \E p \in AnonPolicies : CreatePolicy(p)
    \/ Tick
    \/ TickDb

SpecExt == InitExt /\ [][NextExt]_vars

(***************************************************************************)
(* Concurrent requests of every kind, with the fairness the runtime gives: *)
(* an awaited database call returns, with a result or an error, and the    *)
(* handler then runs on.                                                   *)
(***************************************************************************)
LiveReqs == 1..MaxLive

LiveInputs ==
    Post(Objects({"app1"}, {EmailA}, {Url}, {"US"}, FALSE, FALSE))
    \cup Post(Objects({"app1"}, {EmailEmpty}, {Url}, {"US"}, FALSE, FALSE))
    \cup {[method |-> "POST", parse |-> "error"],
          [method |-> "GET", parse |-> "null"],
          [method |-> "OPTIONS", parse |-> "null"]}

InitLive == InitFor(LiveReqs, {"app1"})

NextLive ==
    \/ \E r \in LiveReqs : Start(r, LiveInputs)
    \/ \E r \in LiveReqs : Parse(r)
    \/ \E r \in LiveReqs : Lookup(r, AnyFault)
    \/ \E r \in LiveReqs : Check(r)
    \/ \E r \in LiveReqs : Insert(r, AnyFault, FreshIds)
    \/ \E r \in LiveReqs : Respond(r)
    \/ \E a \in {"app1"} : CreateApplication(a)
    \/ \E a \in {"app1"} : DeleteApplication(a)

Fairness ==
    \A r \in LiveReqs :
        /\ WF_vars(Parse(r))
        /\ WF_vars(Lookup(r, AnyFault))
        /\ WF_vars(Check(r))
        /\ WF_vars(Insert(r, AnyFault, FreshIds))
        /\ WF_vars(Respond(r))

SpecLive == InitLive /\ [][NextLive]_vars /\ Fairness

(***************************************************************************)
(* Vocabulary of the properties.                                           *)
(***************************************************************************)
Started(r) == pc[r] # "idle"
StartedSet == {r \in DOMAIN pc : Started(r)}
IsPostObject(q) == q.method = "POST" /\ q.parse = "object"

\* the three required fields are present and non-empty
AllRequired(q) ==
    /\ IsPostObject(q)
    /\ "applicationId" \in DOMAIN q.body /\ q.body.applicationId # ""
    /\ "email" \in DOMAIN q.body /\ q.body.email # <<>>
    /\ "sourceUrl" \in DOMAIN q.body /\ q.body.sourceUrl # ""

\* some required field is absent or empty
SomeRequiredMissing(q) ==
    /\ IsPostObject(q)
    /\ \/ "applicationId" \notin DOMAIN q.body
       \/ "email" \notin DOMAIN q.body
       \/ "sourceUrl" \notin DOMAIN q.body
       \/ ("applicationId" \in DOMAIN q.body /\ q.body.applicationId = "")
       \/ ("email" \in DOMAIN q.body /\ q.body.email = <<>>)
       \/ ("sourceUrl" \in DOMAIN q.body /\ q.body.sourceUrl = "")

\* the lower-cased and trimmed form of an email
Normal(email) == trim(toLowerCase(email))

HasEntry(rows, app, email) ==
    \E x \in rows : x.application_id = app /\ x.email = email

\* the country of the request is absent, empty or fits the country column,
\* as it is or with the spaces at its end cut
CountryFits(q) ==
    "country" \in DOMAIN q.body => ~OverLength(q.body.country, CountryMaxLen)

Is(response, status, body) ==
    /\ response.status = status
    /\ "json" \in DOMAIN response
    /\ response.json = body

Is201(response) ==
    /\ response.status = 201
    /\ "json" \in DOMAIN response
    /\ DOMAIN response.json = {"success", "id", "message"}
    /\ response.json.success = TRUE
    /\ response.json.message = "Successfully joined waitlist"

Is409(response) ==
    Is(response, 409, [success |-> FALSE, message |-> "Email already registered"])
Is500(response) ==
    Is(response, 500, [success |-> FALSE, message |-> "Internal server error"])
IsMissing400(response) ==
    Is(response, 400, [success |-> FALSE, message |-> "Missing required fields"])
IsInvalidApp400(response) ==
    Is(response, 400, [success |-> FALSE, message |-> "Invalid application ID"])

\* the database calls request r has made
Ops(r) == {calls[r][i].op : i \in DOMAIN calls[r]}
\* a database call of request r failed before reaching the database
Faulted(r) == \E i \in DOMAIN calls[r] : calls[r][i].error \in InfraFaults
\* the database call made in this step by request r failed that way
FaultNow(r) ==
    /\ Len(calls'[r]) = Len(calls[r]) + 1
    /\ calls'[r][Len(calls'[r])].error \in InfraFaults

Responds(r) == pc[r] # "done" /\ pc'[r] = "done"

\* the steps of request r: the database executes its lookup or its insert,
\* the handler resumes with the answer
LookupStep(r) == pc[r] = "lookup" /\ pc'[r] = "check"
CheckStep(r) == pc[r] = "check" /\ pc'[r] # "check"
InsertStep(r) == pc[r] = "insert" /\ pc'[r] = "respond"
RespondStep(r) == pc[r] = "respond" /\ pc'[r] = "done"

\* the answer of a lookup is one row and no error
RowReturned(res) == res.error = "none" /\ res.found

\* the insert of request r was executed and stored entry x
Created(r, x) ==
    /\ pc[r] \in {"respond", "done"}
    /\ \E res \in data[r] : res.error = "none" /\ res.id = x.id

(***************************************************************************)
(* C1: however the lookups and inserts of the racing requests interleave,  *)
(* once all the requests made so far are answered exactly one of them got  *)
(* 201, every other one got 409 'Email already registered', and exactly    *)
(* one row exists for the pair; at no time are there two 201s or two rows. *)
(***************************************************************************)
C1_RaceOneWinner ==
    LET winners == {r \in StartedSet : Done(r) /\ resp[r].status = 201}
        rows == {x \in entries : x.application_id = "app1" /\ x.email = EmailK}
    IN  /\ Cardinality(winners) <= 1
        /\ Cardinality(rows) <= 1
        /\ (StartedSet # {} /\ \A r \in StartedSet : Done(r)) =>
              /\ Cardinality(winners) = 1
              /\ \A r \in StartedSet \ winners : Is409(resp[r])
              /\ \A r \in winners : Is201(resp[r])
              /\ Cardinality(rows) = 1
              /\ entries = rows

\* all racers were in flight together (none started after another's answer),
\* they sent differently written emails, and all are answered
C1_Witness ==
    /\ \A r \in Racers : Done(r) /\ prior[r] = {}
    /\ \E r1, r2 \in Racers : req[r1].body.email # req[r2].body.email
    /\ Cardinality({r \in Racers : resp[r].status = 409}) = MaxRacers - 1

(***************************************************************************)
(* C2: no two entries share (application, normalized email), and every     *)
(* entry's email is the lower-cased, trimmed email of the request that     *)
(* created it.                                                             *)
(***************************************************************************)
C2_UniquePair ==
    /\ \A x, y \in entries :
          (x.application_id = y.application_id /\ Normal(x.email) = Normal(y.email))
              => x = y
    /\ \A x \in entries : \E r \in DOMAIN pc :
          /\ Created(r, x)
          /\ Done(r) => (Is201(resp[r]) /\ resp[r].json.id = x.id)
          /\ x.application_id = req[r].body.applicationId
          /\ x.email = Normal(req[r].body.email)

\* two requests for the same application with differently written emails of
\* the same normal form both reached the insert, and one row is stored
C2_Witness ==
    \E r1, r2 \in DOMAIN pc :
        /\ r1 # r2 /\ Done(r1) /\ Done(r2)
        /\ "insert" \in Ops(r1) /\ "insert" \in Ops(r2)
        /\ req[r1].body.applicationId = req[r2].body.applicationId
        /\ req[r1].body.email # req[r2].body.email
        /\ Normal(req[r1].body.email) = Normal(req[r2].body.email)
        /\ HasEntry(entries, req[r1].body.applicationId, Normal(req[r1].body.email))

(***************************************************************************)
(* C3: a POST with the three required fields non-empty goes on to the      *)
(* lookup; the lookup of an existing application, the email being a        *)
(* string, goes on to the insert; the insert, when the application exists, *)
(* the normalized email is valid and no entry for the pair exists, stores  *)
(* an entry with a new id that holds the application id, the normalized    *)
(* email and the source URL; and the request is then answered 201 with     *)
(* that id.  The steps looked at are those whose database call was         *)
(* answered by the database.                                               *)
(***************************************************************************)
C3_InsertAccepted(r) ==
    LET q == req[r]
        app == q.body.applicationId
        email == Normal(q.body.email)
    IN  /\ (/\ InsertStep(r)
            /\ app \in applications
            /\ valid_email_format(email)
            /\ ~HasEntry(entries, app, email)
            /\ ~FaultNow(r))
           => \E res \in data'[r] :
                /\ res.error = "none"
                /\ \A x \in entries : x.id # res.id
                /\ \E x \in entries' :
                     /\ x.id = res.id
                     /\ x.application_id = app
                     /\ x.email = email
                     /\ x.source_url = q.body.sourceUrl
        /\ RespondStep(r) =>
              \A res \in data[r] :
                 res.error = "none" => (Is201(resp'[r]) /\ resp'[r].json.id = res.id)

C3_Progress(r) ==
    /\ (pc[r] = "idle" /\ pc'[r] # "idle" /\ AllRequired(req'[r])) => pc'[r] = "parse"
    /\ (pc[r] = "parse" /\ pc'[r] # "parse" /\ AllRequired(req[r])) => pc'[r] = "lookup"
    /\ (/\ LookupStep(r)
        /\ req[r].body.applicationId \in applications
        /\ ~FaultNow(r)) => data'[r] = {[error |-> "none", found |-> TRUE]}
    /\ (/\ CheckStep(r)
        /\ data[r] = {[error |-> "none", found |-> TRUE]}
        /\ IsString(req[r].body.email)) => pc'[r] = "insert"

\* C3: a valid signup for an existing application with an email not yet
\* registered for it proceeds from each step to the next, its entry is
\* stored with the normalized email, and it is answered 201 with the id
C3_Original ==
    [][\A r \in DOMAIN pc : C3_Progress(r) /\ C3_InsertAccepted(r)]_vars

(***************************************************************************)
(* C4: a request that starts after a request with the same body was        *)
(* answered 201, and is answered while that entry is still stored, is      *)
(* never answered 201, and is answered 409 'Email already registered'      *)
(* unless one of its database calls failed before reaching the database.   *)
(***************************************************************************)
C4_Repeat(r0, r) ==
    (/\ r0 \in prior[r]
     /\ Is201(resp[r0])
     /\ req[r] = req[r0]
     /\ \E x \in entries : x.id = resp[r0].json.id
     /\ Responds(r))
    => /\ resp'[r].status # 201
       /\ ~Faulted(r) /\ ~FaultNow(r) => Is409(resp'[r])

\* C4: the repeat of a request answered 201 is never answered 201, and is
\* answered 409 when its database calls are answered
C4_RepeatIs409 ==
    [][\A r0, r \in DOMAIN pc : C4_Repeat(r0, r)]_vars

C4_Witness ==
    \E r0, r \in DOMAIN pc :
        /\ r0 \in prior[r] /\ Done(r)
        /\ Is201(resp[r0]) /\ req[r] = req[r0]
        /\ \E x \in entries : x.id = resp[r0].json.id
        /\ Is409(resp[r])

(***************************************************************************)
(* C5: of the steps of a request only its insert, when the database        *)
(* accepts it, changes the entries, adding exactly one and removing none;  *)
(* and the request is answered 201 exactly when its insert was accepted,   *)
(* so a request adds one entry when answered 201 and none otherwise.       *)
(***************************************************************************)
C5_Step(r) ==
    pc[r] # pc'[r] =>
        /\ IF InsertStep(r) /\ \E res \in data'[r] : res.error = "none"
           THEN /\ entries \subseteq entries'
                /\ Cardinality(entries') = Cardinality(entries) + 1
           ELSE entries' = entries
        /\ Responds(r) =>
              (resp'[r].status = 201
                  <=> (RespondStep(r) /\ \E res \in data[r] : res.error = "none"))

C6_MissingFields ==
    \A r \in DOMAIN pc :
        (Started(r) /\ SomeRequiredMissing(req[r]))
            => /\ pc[r] \in {"parse", "done"}
               /\ Done(r) => IsMissing400(resp[r])
               /\ calls[r] = <<>>

\* only the source URL is missing, and the application exists
C6_Witness ==
    \E r \in DOMAIN pc :
        /\ Started(r) /\ IsPostObject(req[r])
        /\ DOMAIN req[r].body = {"applicationId", "email", "country"}
        /\ req[r].body.applicationId \in applications
        /\ IsMissing400(resp[r])

(***************************************************************************)
(* C7: the lookup of a request whose applicationId names no existing       *)
(* application, well-formed or not, returns no row, and the handler,       *)
(* resuming with that answer, ends the request with 400 'Invalid           *)
(* application ID'; a request answered so never attempted the insert.      *)
(***************************************************************************)
C7_Step(r) ==
    /\ (/\ LookupStep(r)
        /\ AllRequired(req[r])
        /\ req[r].body.applicationId \notin applications)
       => /\ \A res \in data'[r] : ~RowReturned(res)
          /\ entries' = entries
    /\ (CheckStep(r) /\ \A res \in data[r] : ~RowReturned(res))
       => /\ pc'[r] = "done"
          /\ IsInvalidApp400(resp'[r])
          /\ entries' = entries
    /\ (Responds(r) /\ IsInvalidApp400(resp'[r])) => "insert" \notin Ops(r)

\* C7: an applicationId of no existing application gives 400 'Invalid
\* application ID' and no insert
C7_UnknownApplication == [][\A r \in DOMAIN pc : C7_Step(r)]_vars

\* a well-formed identifier of no application, every database call answered
C7_Witness ==
    \E r \in DOMAIN pc :
        /\ Done(r) /\ AllRequired(req[r])
        /\ req[r].body.applicationId = "app3"
        /\ ~Faulted(r)
        /\ IsInvalidApp400(resp[r])
        /\ Ops(r) = {"lookup"}

(***************************************************************************)
(* C8: every request one of whose database calls, the lookup or the        *)
(* insert, failed (connection failure, check, foreign-key or length        *)
(* violation; not the uniqueness violation) is answered 500 'Internal      *)
(* server error'.                                                          *)
(***************************************************************************)
ServerErrors == InfraFaults \cup {"23514", "23503", "22001"}

\* C8: a failed database call, at the lookup or the insert, gives 500
C8_ErrorsAre500 ==
    \A r \in DOMAIN pc :
        (Done(r) /\ \E i \in DOMAIN calls[r] : calls[r][i].error \in ServerErrors)
            => Is500(resp[r])

(***************************************************************************)
(* C9: every 500 response has the body {success:false, message:'Internal   *)
(* server error'} and nothing else, whatever failed underneath.            *)
(***************************************************************************)
C9_FixedBody ==
    \A r \in DOMAIN pc :
        (Done(r) /\ resp[r].status = 500)
            => /\ "json" \in DOMAIN resp[r]
               /\ resp[r].json = [success |-> FALSE, message |-> "Internal server error"]

\* two 500s with different causes: a body that does not parse, and an insert
\* refused by the database or failed on the way to it
C9_Witness ==
    \E r1, r2 \in DOMAIN pc :
        /\ Done(r1) /\ resp[r1].status = 500 /\ req[r1].parse = "error"
        /\ Done(r2) /\ resp[r2].status = 500
        /\ \E i \in DOMAIN calls[r2] :
              calls[r2][i].op = "insert" /\ calls[r2][i].error \in ServerErrors

(***************************************************************************)
(* C10: a request that reached the insert with an email whose normalized   *)
(* form fails the email-format check is answered 500 'Internal server      *)
(* error' (the insert failing with the check violation when the call       *)
(* reached the database), and no entry ever holds such an email.           *)
(***************************************************************************)
C10_BadEmailIs500 ==
    /\ \A r \in DOMAIN pc :
          (/\ Done(r) /\ AllRequired(req[r]) /\ "insert" \in Ops(r)
           /\ ~valid_email_format(Normal(req[r].body.email)))
          => /\ Is500(resp[r])
             /\ ~Faulted(r) /\ CountryFits(req[r]) => calls[r][Len(calls[r])].error = "23514"
    /\ \A x \in entries : valid_email_format(x.email)

C10_Witness ==
    \E r \in DOMAIN pc :
        /\ Done(r) /\ AllRequired(req[r])
        /\ req[r].body.email = EmailBad
        /\ calls[r] = <<[op |-> "lookup", error |-> "none"],
                        [op |-> "insert", error |-> "23514"]>>
        /\ Is500(resp[r])
        /\ entries = {}

(***************************************************************************)
(* C11: emails that differ only in letter case or surrounding white space  *)
(* are one email for uniqueness: a request started after a 201 for the     *)
(* same application and an email of the same normal form, answered while   *)
(* that entry is stored, stores nothing and is never answered 201, and is  *)
(* answered 409 when its database calls are answered and its country fits; *)
(* normalizing a normalized email changes nothing.                         *)
(***************************************************************************)
C11_Registered(r0, r) ==
    /\ r0 \in prior[r]
    /\ Is201(resp[r0])
    /\ AllRequired(req[r])
    /\ req[r].body.applicationId = req[r0].body.applicationId
    /\ Normal(req[r].body.email) = Normal(req[r0].body.email)
    /\ \E x \in entries : x.id = resp[r0].json.id

C11_Variant(r0, r) ==
    /\ (InsertStep(r) /\ C11_Registered(r0, r))
       => /\ entries' = entries
          /\ \A res \in data'[r] :
                /\ res.error # "none"
                /\ (~FaultNow(r) /\ CountryFits(req[r])) => res.error = "23505"
    /\ (Responds(r) /\ C11_Registered(r0, r))
       => /\ resp'[r].status # 201
          /\ (~Faulted(r) /\ CountryFits(req[r])) => Is409(resp'[r])

C11_Idempotent(q) ==
    (IsPostObject(q) /\ "email" \in DOMAIN q.body)
        => NormalizeEmail(NormalizeEmail(q.body.email)) = NormalizeEmail(q.body.email)

\* C11: a variant of a registered email is answered 409 and stores nothing
C11_VariantsAreOneEmail ==
    [][/\ \A r0, r \in DOMAIN pc : C11_Variant(r0, r)
       /\ \A r \in DOMAIN pc :
             (pc[r] = "idle" /\ pc'[r] # "idle") => C11_Idempotent(req'[r])]_vars

\* a differently written email of a registered one was answered 409
C11_Witness ==
    \E r0, r \in DOMAIN pc :
        /\ r0 \in prior[r] /\ Done(r)
        /\ Is201(resp[r0]) /\ AllRequired(req[r])
        /\ req[r].body.applicationId = req[r0].body.applicationId
        /\ req[r].body.email # req[r0].body.email
        /\ Normal(req[r].body.email) = Normal(req[r0].body.email)
        /\ Is409(resp[r])
        /\ Cardinality(entries) = 1

(***************************************************************************)
(* C12: uniqueness is per application: a request is answered 409 only when *)
(* its insert met an entry of the same application holding the normalized  *)
(* email, whatever other applications hold, so one email is registered     *)
(* under each application.                                                 *)
(***************************************************************************)
C12_Step(r) ==
    /\ (InsertStep(r) /\ \E res \in data'[r] : res.error = "23505")
          => HasEntry(entries, req[r].body.applicationId, Normal(req[r].body.email))
    /\ (Responds(r) /\ resp'[r].status = 409)
          => (RespondStep(r) /\ \E res \in data[r] : res.error = "23505")

C12_PerApplication == [][\A r \in DOMAIN pc : C12_Step(r)]_vars

\* the same email is stored under two applications, the second request
\* having started after the first was answered 201
C12_Witness ==
    \E r1, r2 \in DOMAIN pc :
        /\ r1 \in prior[r2] /\ Done(r2)
        /\ Is201(resp[r1]) /\ Is201(resp[r2])
        /\ AllRequired(req[r1]) /\ AllRequired(req[r2])
        /\ req[r1].body.applicationId # req[r2].body.applicationId
        /\ Normal(req[r1].body.email) = Normal(req[r2].body.email)
        /\ \E x, y \in entries :
              /\ x.id = resp[r1].json.id /\ y.id = resp[r2].json.id
              /\ x.email = y.email /\ x.application_id # y.application_id

(***************************************************************************)
(* C13: an OPTIONS request is answered 200 with the text 'ok' as soon as   *)
(* it is received, whether its body parses, is null or is an object, and   *)
(* whatever the tables hold; it makes no database call and its step        *)
(* changes neither table.                                                  *)
(***************************************************************************)
C13_Step(r) ==
    (pc[r] = "idle" /\ pc'[r] # "idle" /\ req'[r].method = "OPTIONS")
        => /\ pc'[r] = "done"
           /\ resp'[r].status = 200
           /\ "text" \in DOMAIN resp'[r] /\ resp'[r].text = "ok"
           /\ "json" \notin DOMAIN resp'[r]
           /\ calls'[r] = <<>>
           /\ entries' = entries /\ applications' = applications

\* C13: OPTIONS is always 200 'ok' with no database read or write
C13_Preflight ==
    [][\A r \in DOMAIN pc :
          /\ C13_Step(r)
          /\ (Done(r) /\ req[r].method = "OPTIONS") => (resp'[r] = resp[r] /\ calls'[r] = <<>>)]_vars

\* an OPTIONS request whose body does not parse was answered 200 'ok' while
\* no application exists
C13_Witness ==
    \E r \in DOMAIN pc :
        /\ Done(r) /\ req[r].method = "OPTIONS" /\ req[r].parse = "error"
        /\ resp[r].status = 200 /\ resp[r].text = "ok"
        /\ applications = {}

(***************************************************************************)
(* C14: a request whose method is neither POST nor OPTIONS is answered 405 *)
(* 'Method not allowed', whether or not its body would parse, and makes no *)
(* database call.                                                          *)
(***************************************************************************)
C14_MethodNotAllowed ==
    \A r \in DOMAIN pc :
        (Started(r) /\ req[r].method \notin {"POST", "OPTIONS"})
            => /\ Done(r)
               /\ Is(resp[r], 405, [success |-> FALSE, message |-> "Method not allowed"])
               /\ calls[r] = <<>>

\* a DELETE whose body does not parse was answered 405
C14_Witness ==
    \E r \in DOMAIN pc :
        /\ Done(r) /\ req[r].method = "DELETE" /\ req[r].parse = "error"
        /\ resp[r].status = 405

(***************************************************************************)
(* C15: country is optional.  An accepted insert stores a null country     *)
(* when the request has no country or an empty one, and the given country  *)
(* (less the spaces beyond the column's length) otherwise; and for a       *)
(* request whose country fits the column, the same request with the        *)
(* country left out, empty or replaced by another storable country gets    *)
(* the same status at every step.                                          *)
(***************************************************************************)
CountryChoices == Field("country", {"", "US", "US "}, TRUE)

WithCountry(q, c) ==
    [q EXCEPT !.body = [f \in DOMAIN q.body \ {"country"} |-> q.body[f]] @@ c]

\* the status of the response to a body that was read, 0 when the request
\* goes on
BodyStatus(q) ==
    IF BodyResponse(q) = Null THEN 0 ELSE (CHOOSE x \in BodyResponse(q) : TRUE).status

StepFault(r) ==
    IF FaultNow(r) THEN calls'[r][Len(calls'[r])].error ELSE "none"

\* what the column holds for a country: the country, less the spaces beyond
\* the column's length
C15_Holds(s, country) ==
    /\ Len(s) <= CountryMaxLen
    /\ Len(country) <= CountryMaxLen => s = country
    /\ Len(s) <= Len(country) /\ country = s \o Spaces(Len(country) - Len(s))

C15_Stored(r) ==
    (InsertStep(r) /\ \E res \in data'[r] : res.error = "none")
        => \E x \in entries' \ entries :
              /\ \E res \in data'[r] : x.id = res.id
              /\ IF "country" \in DOMAIN req[r].body /\ req[r].body.country # ""
                 THEN \E s \in x.country : C15_Holds(s, req[r].body.country)
                 ELSE x.country = {}

C15_SameStatus(r) ==
    /\ (pc[r] = "parse" /\ pc'[r] # "parse" /\ IsPostObject(req[r]) /\ CountryFits(req[r]))
       => \A c \in CountryChoices :
             BodyStatus(WithCountry(req[r], c))
                = (IF pc'[r] = "done" THEN resp'[r].status ELSE 0)
    /\ (InsertStep(r) /\ CountryFits(req[r]))
       => \A c \in CountryChoices : \A row \in sent[r] : \A res \in data'[r] :
             InsertResponse(
                 InsertError(applications, entries,
                             NewRow(WithCountry(req[r], c).body, row.created_at),
                             StepFault(r)),
                 nextId).status = InsertResponse(res.error, res.id).status
    /\ RespondStep(r)
       => \A res \in data[r] : resp'[r].status = InsertResponse(res.error, res.id).status

\* C15: null country stored when none is given; country never decides the status
C15_CountryOptional ==
    [][\A r \in DOMAIN pc : C15_Stored(r) /\ C15_SameStatus(r)]_vars

\* a signup without a country was answered 201 and its entry has a null country
C15_Witness ==
    \E r \in DOMAIN pc : \E x \in entries :
        /\ Done(r) /\ Is201(resp[r]) /\ x.id = resp[r].json.id
        /\ "country" \notin DOMAIN req[r].body
        /\ x.country = {}
        /\ x.email = EmailC

(***************************************************************************)
(* C16: the shape of every response but the pre-flight's.                  *)
(***************************************************************************)
C16_Messages ==
    {<<405, "Method not allowed">>,
     <<400, "Missing required fields">>,
     <<400, "Invalid application ID">>,
     <<409, "Email already registered">>,
     <<201, "Successfully joined waitlist">>,
     <<500, "Internal server error">>}

C16_Shape(response) ==
    /\ "json" \in DOMAIN response
    /\ response.headers.contentType = "application/json"
    /\ {"success", "message"} \subseteq DOMAIN response.json
    /\ DOMAIN response.json \subseteq {"success", "id", "message"}
    /\ response.json.success \in BOOLEAN
    /\ response.json.success <=> (response.status = 201)
    /\ ("id" \in DOMAIN response.json) <=> response.json.success
    /\ <<response.status, response.json.message>> \in C16_Messages

\* C16: every response to a request other than OPTIONS is a JSON body with a
\* boolean success, true exactly on 201, an id exactly on success, and one of
\* the six fixed messages with its own status
C16_ResponseShape ==
    \A r \in DOMAIN pc :
        (Done(r) /\ req[r].method # "OPTIONS") => C16_Shape(resp[r])

\* one request was answered 201 with an id and another 409 without one
C16_Witness ==
    \E r1, r2 \in DOMAIN pc :
        /\ Done(r1) /\ Done(r2)
        /\ resp[r1].status = 201 /\ "id" \in DOMAIN resp[r1].json
        /\ resp[r2].status = 409 /\ "id" \notin DOMAIN resp[r2].json

(***************************************************************************)
(* C17: the application is deleted between the lookup and the insert.      *)
(* A request at "insert" has passed the lookup, so its application existed *)
(* then.  The insert is refused, by the foreign key when the row is        *)
(* otherwise valid, and the handler, resuming with the refusal, answers    *)
(* 500.                                                                    *)
(***************************************************************************)
C17_Refused(res) == res.error \notin {"none", "23505"}

C17_Step(r) ==
    /\ (InsertStep(r) /\ req[r].body.applicationId \notin applications)
        => /\ \A res \in data'[r] : C17_Refused(res)
           /\ entries' = entries
           /\ (/\ ~FaultNow(r)
               /\ valid_email_format(Normal(req[r].body.email))
               /\ CountryFits(req[r]))
                  => /\ calls'[r][Len(calls'[r])] = [op |-> "insert", error |-> "23503"]
                     /\ \A res \in data'[r] : res.error = "23503"
    /\ (RespondStep(r) /\ \A res \in data[r] : C17_Refused(res))
        => Is500(resp'[r]) /\ entries' = entries

\* C17: an insert for an application deleted since the lookup is answered 500
\* and stores nothing; the foreign key rejects it when the row is otherwise valid
C17_DeletedBetween ==
    [][\A r \in DOMAIN pc : C17_Step(r)]_vars

\* the lookup found the application, the insert hit the foreign key, and the
\* answer was 500 with no entry for the request
C17_Witness ==
    \E r \in DOMAIN pc :
        /\ Done(r) /\ Is500(resp[r])
        /\ calls[r] = <<[op |-> "lookup", error |-> "none"],
                        [op |-> "insert", error |-> "23503"]>>
        /\ ~HasEntry(entries, req[r].body.applicationId, Normal(req[r].body.email))

(***************************************************************************)
(* C18: the order of the checks.  An unknown application is one that is    *)
(* never in the applications table: its id is outside AppIds.              *)
(***************************************************************************)
C18_Order(r) ==
    /\ req[r].method \notin {"POST", "OPTIONS"}
          => Is(resp[r], 405, [success |-> FALSE, message |-> "Method not allowed"])
                /\ calls[r] = <<>>
    /\ SomeRequiredMissing(req[r])
          => IsMissing400(resp[r]) /\ calls[r] = <<>>
    /\ (AllRequired(req[r]) /\ req[r].body.applicationId \notin AppIds)
          => /\ IsInvalidApp400(resp[r])
             /\ Ops(r) = {"lookup"}
             /\ resp[r].status \notin {409, 500}

\* C18: method, then required fields, then the application, then the insert;
\* the first check that fails decides the response
C18_CheckOrder ==
    \A r \in DOMAIN pc : Done(r) => C18_Order(r)

\* an email registered under app1 was sent for an unknown application and the
\* answer was 'Invalid application ID'
C18_Witness ==
    \E r \in DOMAIN pc :
        /\ Done(r) /\ AllRequired(req[r])
        /\ req[r].body.applicationId = "app3"
        /\ HasEntry(entries, "app1", Normal(req[r].body.email))
        /\ IsInvalidApp400(resp[r])

(***************************************************************************)
(* C19: what the handler writes.  A handler step is one that moves some    *)
(* request; the other steps are the clock and the out-of-band changes.     *)
(***************************************************************************)
HandlerStep == \E r \in DOMAIN pc : pc'[r] # pc[r]

C19_Frame ==
    HandlerStep =>
        /\ applications' = applications
        /\ entries \subseteq entries'
        /\ Cardinality(entries' \ entries) <= 1
        /\ \A x \in entries' \ entries : \A y \in entries : x.id # y.id
        /\ \A r \in DOMAIN pc :
              (pc'[r] # pc[r]
                 /\ ~(InsertStep(r) /\ \E res \in data'[r] : res.error = "none"))
                  => entries' = entries
        /\ \A r \in DOMAIN pc :
              (RespondStep(r) /\ resp'[r].status # 201)
                  => \A res \in data[r] : res.error # "none"

\* C19: a handler step leaves the applications alone and every stored entry as
\* it is, and adds at most one entry, none unless the request is answered 201
C19_InsertOnly ==
    [][C19_Frame]_vars

\* a repeat sent later with another source URL and no country was answered 409
\* and the stored entry still has its first source URL, country and creation time
C19_Witness ==
    \E r \in DOMAIN pc : \E x \in entries :
        /\ Done(r) /\ Is409(resp[r])
        /\ req[r].body.sourceUrl = Url2 /\ "country" \notin DOMAIN req[r].body
        /\ now > x.created_at
        /\ x.email = EmailA /\ x.source_url = Url /\ x.country = {"US"}

(***************************************************************************)
(* C20: no retry.  calls[r] is the sequence of database calls of request r *)
(* that were executed, each with the error it returned; at "lookup" and at *)
(* "insert" a call is issued and not yet executed.                         *)
(***************************************************************************)
C20_Calls(r) ==
    /\ Len(calls[r]) <= 2
    /\ \A i, j \in DOMAIN calls[r] : calls[r][i].op = calls[r][j].op => i = j
    /\ \A i \in DOMAIN calls[r] :
          calls[r][i].error # "none"
              => (i = Len(calls[r]) /\ pc[r] \in {"check", "respond", "done"})
    /\ \A i \in DOMAIN calls[r] : calls[r][i].op = "insert" => i = 2
    /\ Len(calls[r]) = 2 => pc[r] \in {"respond", "done"}

\* C20: a request makes at most one lookup and at most one insert, the lookup
\* first, and a call that failed is the last call of the request, which then
\* has no call pending
C20_NoRetry ==
    \A r \in DOMAIN pc : C20_Calls(r)

\* one request stopped at a failed lookup and another at a failed insert
C20_Witness ==
    \E r1, r2 \in DOMAIN pc :
        /\ Done(r1) /\ calls[r1] = <<[op |-> "lookup", error |-> "conn"]>>
        /\ Done(r2) /\ calls[r2] = <<[op |-> "lookup", error |-> "none"],
                                     [op |-> "insert", error |-> "conn"]>>

(***************************************************************************)
(* C21: the position reported by the extended variant.                     *)
(***************************************************************************)
\* the entries of the row's application created no later than the row
C21_Ordinal(rows, row) ==
    Cardinality({x \in rows : x.application_id = row.application_id
                               /\ x.joined_at <= row.joined_at})

C21_Step(r) ==
    /\ (pc[r] = "count" /\ pc'[r] = "answer" /\ ~FaultNow(r))
        => \A res \in data'[r] : \A row \in entries :
              row.id = res.id => Position(res.count) = C21_Ordinal(entries, row)
    /\ (pc[r] = "answer" /\ pc'[r] = "done")
        => \A res \in data[r] :
              /\ Is(resp'[r], 201, resp'[r].json)
              /\ resp'[r].json.data = [id |-> res.id, position |-> Position(res.count)]

\* C21: the position returned with a 201 is the number of entries of the same
\* application, as the count finds them, created no later than the new row,
\* whatever was inserted between the insert and the count
C21_PositionIsOrdinal ==
    [][\A r \in DOMAIN pc : C21_Step(r)]_vars

(***************************************************************************)
(* C22: an application that exists and is not active, extended variant.    *)
(***************************************************************************)
C22_NoRow == {[error |-> "PGRST116", found |-> FALSE]}

C22_Step(r) ==
    /\ (/\ LookupStep(r) /\ ~FaultNow(r)
        /\ EqValue(req[r].body, "applicationId") \in applications \cap inactive)
        => data'[r] = C22_NoRow /\ entries' = entries
    /\ (/\ CheckStep(r) /\ data[r] = C22_NoRow
        /\ EqValue(req[r].body, "applicationId") \in applications)
        => /\ pc'[r] = "done"
           /\ IsInvalidApp400(resp'[r])
           /\ entries' = entries

\* C22: the lookup of an existing application whose active flag is false
\* finds no row, and the signup is answered 400 'Invalid application ID' and
\* stores nothing
C22_InactiveIsInvalid ==
    [][\A r \in DOMAIN pc : C22_Step(r)]_vars

(***************************************************************************)
(* C23: identifiers.  gen_random_uuid() may return any value, also one it  *)
(* returned before; what keeps the ids apart is the primary key.           *)
(***************************************************************************)
\* an accepted insert stores one row, whose id no stored row had
C23_Fresh(r) ==
    (InsertStep(r) /\ \E res \in data'[r] : res.error = "none")
        => \E res \in data'[r] :
              /\ \A x \in entries : x.id # res.id
              /\ \E x \in entries' \ entries :
                    x.id = res.id /\ entries' = entries \cup {x}

\* a 201 is the answer to an accepted insert and carries the stored row's id
C23_Reported(r) ==
    RespondStep(r)
        => \A res \in data[r] :
              /\ Is201(resp'[r]) <=> res.error = "none"
              /\ res.error = "none" => resp'[r].json.id = res.id

C23_Distinct ==
    /\ \A r1, r2 \in DOMAIN pc :
          (/\ r1 # r2 /\ Done(r1) /\ Done(r2)
           /\ Is201(resp[r1]) /\ Is201(resp[r2]))
              => resp[r1].json.id # resp[r2].json.id
    /\ \A x, y \in entries : x.id = y.id => x = y
    /\ \A r \in DOMAIN pc :
          (Done(r) /\ Is201(resp[r])) => \E x \in entries : x.id = resp[r].json.id

\* C23: the id returned with a 201 is the id of the row the request's insert
\* stored and differs from the id of every entry that existed before, so no
\* two 201 responses carry the same id and stored entries have distinct ids
C23_FreshIds ==
    [][/\ \A r \in DOMAIN pc : C23_Fresh(r) /\ C23_Reported(r)
       /\ C23_Distinct']_vars

\* two signups were answered 201 with different ids, both entries stored,
\* where the ids could have been the same
C23_Witness ==
    \E r1, r2 \in DOMAIN pc :
        /\ r1 # r2 /\ Done(r1) /\ Done(r2)
        /\ Is201(resp[r1]) /\ Is201(resp[r2])
        /\ resp[r1].json.id # resp[r2].json.id
        /\ {x.id : x \in entries} = {resp[r1].json.id, resp[r2].json.id}
        /\ {resp[r1].json.id, resp[r2].json.id} \subseteq Uuids

(***************************************************************************)
(* C24: no state is held between requests.  The status and message each    *)
(* step answers with are written here as functions of the request, of the  *)
(* two tables as they are when the request's database call is executed,    *)
(* and of whether that call reached the database; nothing else is          *)
(* consulted.  <<0, "">> stands for "no answer yet".                       *)
(***************************************************************************)
C24_Answer(response) ==
    IF response = NoResp THEN <<0, "">>
    ELSE IF "json" \in DOMAIN response THEN <<response.status, response.json.message>>
    ELSE <<response.status, response.text>>

C24_AtStart(q) ==
    IF q.method = "OPTIONS" THEN <<200, "ok">>
    ELSE IF q.method # "POST" THEN <<405, "Method not allowed">>
    ELSE <<0, "">>

C24_AtParse(q) ==
    IF q.parse \in {"error", "null"} THEN <<500, "Internal server error">>
    ELSE IF q.parse = "scalar" \/ SomeRequiredMissing(q)
    THEN <<400, "Missing required fields">>
    ELSE <<0, "">>

C24_AtLookup(q, apps, fault) ==
    IF fault # "none" \/ q.body.applicationId \notin apps
    THEN <<400, "Invalid application ID">>
    ELSE IF ~IsString(q.body.email)
    THEN <<500, "Internal server error">>
    ELSE <<0, "">>

C24_AtInsert(q, apps, rows, fault) ==
    IF \/ fault # "none"
       \/ q.body.applicationId \notin apps
       \/ ~valid_email_format(Normal(q.body.email))
       \/ ~CountryFits(q)
    THEN <<500, "Internal server error">>
    ELSE IF HasEntry(rows, q.body.applicationId, Normal(q.body.email))
    THEN <<409, "Email already registered">>
    ELSE <<201, "Successfully joined waitlist">>

\* the answer the handler will give on resuming with the answer of the database
C24_Pending(q, res) ==
    IF "found" \in DOMAIN res
    THEN (IF ~RowReturned(res) THEN <<400, "Invalid application ID">>
          ELSE IF ~IsString(q.body.email) THEN <<500, "Internal server error">>
          ELSE <<0, "">>)
    ELSE (IF res.error = "none" THEN <<201, "Successfully joined waitlist">>
          ELSE IF res.error = "23505" THEN <<409, "Email already registered">>
          ELSE <<500, "Internal server error">>)

C24_Step(r) ==
    /\ (pc[r] = "idle" /\ pc'[r] # "idle")
          => C24_Answer(resp'[r]) = C24_AtStart(req'[r])
    /\ (pc[r] = "parse" /\ pc'[r] # "parse")
          => C24_Answer(resp'[r]) = C24_AtParse(req[r])
    /\ LookupStep(r)
          => \A res \in data'[r] :
                C24_Pending(req[r], res) = C24_AtLookup(req[r], applications, StepFault(r))
    /\ InsertStep(r)
          => \A res \in data'[r] :
                C24_Pending(req[r], res)
                    = C24_AtInsert(req[r], applications, entries, StepFault(r))
    /\ (CheckStep(r) \/ RespondStep(r))
          => \A res \in data[r] : C24_Answer(resp'[r]) = C24_Pending(req[r], res)

\* C24: the status and message of every answer are determined by the request
\* and by the tables its own database call sees, whatever was handled before
C24_Stateless ==
    [][\A r \in DOMAIN pc : C24_Step(r)]_vars

\* the same signup was handled twice, the second time after the first was
\* answered and against the same tables, and got the same status and message
C24_Witness ==
    \E r1, r2 \in DOMAIN pc :
        /\ r1 \in prior[r2] /\ Done(r2)
        /\ req[r1] = req[r2]
        /\ Is201(resp[r1]) /\ Is201(resp[r2])
        /\ C24_Answer(resp[r1]) = C24_Answer(resp[r2])
        /\ resp[r1].json.id # resp[r2].json.id

(***************************************************************************)
(* C25: every request is answered, once.                                   *)
(***************************************************************************)
C25_Statuses == {200, 405, 400, 409, 201, 500}

\* the step a request waits for is its own: its body being read, its database
\* call being executed, or the handler resuming with the answer; it can always
\* be taken, whatever the other requests are doing
C25_NeverBlocked(r) ==
    /\ pc[r] = "parse" => ENABLED Parse(r)
    /\ pc[r] = "lookup" => ENABLED Lookup(r, AnyFault)
    /\ pc[r] = "check" => ENABLED Check(r)
    /\ pc[r] = "insert" => ENABLED Insert(r, AnyFault, FreshIds)
    /\ pc[r] = "respond" => ENABLED Respond(r)
    /\ pc[r] \in {"idle", "parse", "lookup", "check", "insert", "respond", "done"}

\* C25: a request that was received is eventually answered; the answer has one
\* of the six statuses and never changes; no request waits for another
C25_Terminates ==
    /\ \A r \in LiveReqs : Started(r) ~> Done(r)
    /\ [](\A r \in LiveReqs :
            (Done(r) => resp[r].status \in C25_Statuses) /\ C25_NeverBlocked(r))
    /\ [][\A r \in LiveReqs :
            Done(r) => (pc'[r] = "done" /\ resp'[r] = resp[r])]_vars

\* two requests ran concurrently, each with both database calls, and both
\* were answered
C25_Witness ==
    \E r1, r2 \in DOMAIN pc :
        /\ r1 # r2 /\ r1 \notin prior[r2] /\ r2 \notin prior[r1]
        /\ Done(r1) /\ Done(r2)
        /\ Len(calls[r1]) = 2 /\ Len(calls[r2]) = 2
        /\ resp[r1].status \in C25_Statuses /\ resp[r2].status \in C25_Statuses

(***************************************************************************)
(* C26: the insert is guarded by the lookup.                               *)
(***************************************************************************)
\* the lookup of this step returned exactly one row and no error
C26_RowReturned(r) ==
    /\ ~FaultNow(r)
    /\ req[r].body.applicationId \in UuidStrings
    /\ req[r].body.applicationId \in applications

C26_Step(r) ==
    /\ LookupStep(r)
          => \A res \in data'[r] :
                /\ RowReturned(res) <=> C26_RowReturned(r)
                /\ res.error = calls'[r][1].error
    /\ CheckStep(r)
          => \A res \in data[r] :
                IF RowReturned(res)
                THEN \/ pc'[r] = "insert" /\ resp'[r] = NoResp
                     \/ /\ ~IsString(req[r].body.email)
                        /\ pc'[r] = "done" /\ Is500(resp'[r])
                ELSE /\ pc'[r] = "done"
                     /\ IsInvalidApp400(resp'[r])
                     /\ calls[r][1].error # "none"
    /\ (Len(calls'[r]) > Len(calls[r]) /\ calls'[r][Len(calls'[r])].op = "insert")
          => /\ pc[r] = "insert"
             /\ calls[r] = <<[op |-> "lookup", error |-> "none"]>>
    /\ (Done(r) /\ calls[r] # <<>> /\ calls[r][1].error # "none")
          => Len(calls[r]) = 1 /\ calls'[r] = calls[r]

\* C26: an insert is attempted only by a request whose lookup returned a row
\* without error; every other lookup outcome ends the request with 400
\* 'Invalid application ID' and no insert attempt
C26_InsertAfterLookup ==
    [][\A r \in DOMAIN pc : C26_Step(r)]_vars

\* a lookup that failed to reach the database ended the request with 400
\* 'Invalid application ID' although the application exists
C26_Witness ==
    \E r \in DOMAIN pc :
        /\ Done(r) /\ IsInvalidApp400(resp[r])
        /\ calls[r] = <<[op |-> "lookup", error |-> "conn"]>>
        /\ req[r].body.applicationId \in applications

(***************************************************************************)
(* C27: an email of white space only.                                      *)
(***************************************************************************)
C27_Blank(q) ==
    /\ AllRequired(q)
    /\ \A i \in DOMAIN q.body.email : q.body.email[i] \in WhiteSpace

\* C27: a signup whose email is only white space is never answered 'Missing
\* required fields'; once its lookup has found the application its insert is
\* refused by the email check (23514), the answer is 500 'Internal server
\* error', and no entry with an empty email is stored
C27_BlankEmailIs500 ==
    \A r \in DOMAIN pc :
        (Done(r) /\ C27_Blank(req[r]))
            => /\ ~IsMissing400(resp[r])
               /\ calls[r] # <<>>
               /\ \A x \in entries : x.email # <<>>
               /\ (~Faulted(r) /\ CountryFits(req[r]) /\ Len(calls[r]) = 2)
                     => /\ calls[r][2] = [op |-> "insert", error |-> "23514"]
                        /\ Is500(resp[r])

\* the application exists, the email is one blank, the email check refused
\* the insert and the answer was 500
C27_Witness ==
    \E r \in DOMAIN pc :
        /\ Done(r) /\ C27_Blank(req[r])
        /\ req[r].body.applicationId \in applications
        /\ Normal(req[r].body.email) = <<>>
        /\ calls[r] = <<[op |-> "lookup", error |-> "none"],
                        [op |-> "insert", error |-> "23514"]>>
        /\ Is500(resp[r]) /\ entries = {}

(***************************************************************************)
(* C28: bodies that are not JSON objects.                                  *)
(***************************************************************************)
\* C28 as stated: every POST whose body is not a parsed object gets 500 and
\* makes no database call
C28_Original ==
    \A r \in DOMAIN pc :
        (Done(r) /\ req[r].method = "POST" /\ req[r].parse # "object")
            => Is500(resp[r]) /\ calls[r] = <<>>

\* C28: a POST whose body does not parse, or parses to null, gets 500
\* 'Internal server error'; one whose body parses to a number, string or
\* boolean gets 400 'Missing required fields'; neither makes a database call
C28_UnparsedIs500 ==
    \A r \in DOMAIN pc :
        (Done(r) /\ req[r].method = "POST")
            => /\ req[r].parse \in {"error", "null"}
                    => Is500(resp[r]) /\ calls[r] = <<>>
               /\ req[r].parse = "scalar"
                    => IsMissing400(resp[r]) /\ calls[r] = <<>>

\* a POST with the body null was answered 500 without a database call
C28_Witness ==
    \E r \in DOMAIN pc :
        /\ Done(r) /\ req[r] = [method |-> "POST", parse |-> "null"]
        /\ Is500(resp[r]) /\ calls[r] = <<>>

(***************************************************************************)
(* C29: referential integrity of the entries.                              *)
(***************************************************************************)
\* C29: every stored entry references an application that exists
C29_NoOrphans ==
    \A x \in entries : x.application_id \in applications

\* a signup was stored, its application was deleted and took the entry with
\* it, and a second signup for the deleted application was refused
C29_Witness ==
    \E r1, r2 \in DOMAIN pc :
        /\ Done(r1) /\ Is201(resp[r1])
        /\ req[r1].body.applicationId \notin applications
        /\ \A x \in entries : x.id # resp[r1].json.id
        /\ Done(r2) /\ Len(calls[r2]) = 2 /\ calls[r2][2].error = "23503"

(***************************************************************************)
(* C30: CORS headers.                                                      *)
(***************************************************************************)
C30_Cors(response) ==
    /\ {"origin", "headers", "methods"} \subseteq DOMAIN response.headers
    /\ response.headers.origin = "*"
    /\ response.headers.headers = "authorization, x-client-info, apikey, content-type"
    /\ response.headers.methods = "POST, OPTIONS"

\* the seven exits of the handler, by status and message
C30_Exits ==
    {<<200, "ok">>, <<405, "Method not allowed">>, <<400, "Missing required fields">>,
     <<400, "Invalid application ID">>, <<409, "Email already registered">>,
     <<201, "Successfully joined waitlist">>, <<500, "Internal server error">>}

\* C30: every response, on each of the seven exits, carries the three CORS
\* headers: origin *, the allowed request headers, methods POST, OPTIONS
C30_CorsEverywhere ==
    \A r \in DOMAIN pc :
        Done(r) => C30_Cors(resp[r]) /\ C24_Answer(resp[r]) \in C30_Exits

\* a pre-flight and a stored signup were both answered with the CORS headers
C30_Witness ==
    \E r1, r2 \in DOMAIN pc :
        /\ Done(r1) /\ resp[r1].status = 200 /\ C30_Cors(resp[r1])
        /\ Done(r2) /\ resp[r2].status = 201 /\ C30_Cors(resp[r2])

====
